---- MODULE Spec2Model ----
(***************************************************************************)
(* Tour finalization workflow orchestrator (TourFinalizationService).      *)
(*                                                                         *)
(* One finalizeTour call is modelled as a cooperative asynchronous         *)
(* process: every action is either the synchronous code that runs between  *)
(* two awaits or the arrival of one external response (token request,      *)
(* datastore query, order submission, status update).  External responses  *)
(* are chosen nondeterministically by the environment.                     *)
(*                                                                         *)
(* The submissions of one batch are interchangeable for the control flow   *)
(* (the code only filters and counts the results), so a batch is kept as   *)
(* the number of pending submissions and the number of created orders;     *)
(* the batches issued are recorded, in issue order, in `submitted`.        *)
(* Submissions left in flight by a rejected Promise.all can no longer      *)
(* influence the call; of them only their existence is kept, per workflow. *)
(*                                                                         *)
(* Spec is one finalizeTour call; SpecAllCreated is the same call with an  *)
(* order system that creates every order and SpecPoRefused with one that   *)
(* creates no purchase order; LiveSpec is the call with every awaited      *)
(* request eventually answered; SpecShared adds the session                *)
(* initializations of other calls on the same service object; PayloadSpec  *)
(* builds the order requests of the helpers, one at a time, over the       *)
(* random draws; GuideSpec calls generateInstructionGuide on its own;      *)
(* SpecCalls is any sequence of finalizeTour and guide calls, one at a     *)
(* time, and SpecRepeated repeated finalizeTour calls with one batch of an *)
(* earlier call remembered; SpecStored is a call on a tour stored with a   *)
(* list of workflows, the guide it returns being recorded.                 *)
(*                                                                         *)
(* QuickSpec is handleCreateTour of the SimpleQuickTourCreator component,  *)
(* which posts its sample orders one at a time.                            *)
(***************************************************************************)
EXTENDS Naturals, Integers, Sequences, FiniteSets, TLC

\* ------------------------------------------------------------------ bounds
MaxOptions == 2
MaxParticipants == 1
MaxSkus == 2

\* ---------------------------------------------------------------- constants
HostDemoCount == 3
BulkDemoCount == 10
SingleDemoCount == 5
MultiDemoCount == 5
TourQueries == 4
MultiItemOrders == 10
SingleItemOrders == 10
BulkShipOrders == 25
ToastOrderCount == 46

\* The WorkflowOption type, in declaration order.
WorkflowOption ==
  { "receive_to_light", "pack_to_light", "standard_receiving",
    "bulk_shipping", "single_item_batch", "multi_item_batch" }

\* The logic blocks with the pack-to-light block placed last.
LogicBlocksReordered ==
  << "receive_to_light", "standard_receiving", "bulk_shipping",
     "single_item_batch", "multi_item_batch", "pack_to_light" >>

\* The order of the six `if (selectedOptions.includes(..))` blocks.
LogicBlocks ==
  << "receive_to_light", "pack_to_light", "standard_receiving",
     "bulk_shipping", "single_item_batch", "multi_item_batch" >>

\* Names a caller may pass: the six options and one that is none of them.
OptionNames == WorkflowOption \cup { "unknown_workflow" }

OptionLists == UNION { [1..k -> OptionNames] : k \in 0..MaxOptions }

SkuPool == << "SKU-A", "SKU-B", "SKU-C", "SKU-D", "SKU-E", "SKU-F", "SKU-G" >>

\* A tour has no selected SKUs or the first MaxSkus of the pool.
SkuLists == { << >>, SubSeq(SkuPool, 1, MaxSkus) }

\* A tour has no participants or MaxParticipants of them.
ParticipantCounts == { 0, MaxParticipants }

\* Array.prototype.includes
Includes(list, name) == \E i \in DOMAIN list : list[i] = name

Range(s) == { s[i] : i \in DOMAIN s }

\* Strings that the code joins with "-" are kept as the sequence of their
\* "-"-separated parts, so that joining is concatenation of sequences and two
\* joined strings are equal exactly when their sequences are.
\* team_members.name of the tour's host.
HostName == << "HOST" >>

\* new Date().toISOString().slice(0, 10) during the call.
Today == << "2025", "09", "14" >>

NoTour ==
  [ loaded |-> FALSE, participants |-> 0, selected_skus |-> << >>,
    selected_workflows |-> << >>, host |-> << >> ]

NoResult == [ returned |-> FALSE, success |-> FALSE, errors |-> << >>,
              instructionGuide |-> FALSE ]

NoBatch == [ pending |-> 0, created |-> 0 ]

\* this.shipHero before any initializeShipHero, and the access tokens the
\* token endpoint hands to this finalizeTour call and to another call.
NoShipHero == "undefined"
OwnToken == "token of this call"
OtherToken == "token of another call"

NoRequest == [ kind |-> "none" ]

\* No earlier finalizeTour call has submitted anything.
NoEarlier == [ kind |-> "none" ]

\* The quick tour creator as mounted: no run in progress, no toast shown.
Mounted ==
  [ isCreating |-> FALSE, toast |-> "none", awaiting |-> "none", step |-> 1,
    i |-> 0, sent |-> << >>, created |-> 0 ]

VARIABLES
  \* the datastore and the browser
  tour_participants,   \* number of tour_participants rows of the tour
  selected_skus,       \* tours.selected_skus
  selected_workflows,  \* tours.selected_workflows
  status,              \* tours.status
  refreshToken,        \* localStorage has shiphero_refresh_token
  inBrowser,           \* typeof window !== 'undefined'
  \* the service object
  shipHero,            \* this.shipHero: the access token held, if any
  \* the finalizeTour call
  pc,                  \* where the call is suspended
  selectedOptions,     \* the argument
  errors,              \* const errors: string[]
  tourData,            \* const tourData
  block,               \* index of the logic block being executed
  stage,               \* helper the running handler calls or awaits
  participantOrders,   \* participantOrders.length of the running handler
  batch,               \* the awaited Promise.all / purchase-order call
  query,               \* index of the getTourDetails query awaited
  result,              \* the returned object
  \* the external order system and observation of the run
  orphaned,            \* per workflow: submissions in flight that no
                       \* Promise.all is awaited for any more
  submitted,           \* batches of order requests issued, in issue order
  started,             \* handlers invoked, in invocation order
  tourLoads,           \* tours queries issued by this call
  guideGenerated,      \* generateInstructionGuide returned a guide
  statusWrites,        \* status values sent to the datastore by this call
  \* the other entry points of the service
  request,             \* the order request a helper's loop body has built
  guides,              \* guides returned by generateInstructionGuide calls
  earlier,             \* a batch of requests issued by an earlier call
  \* the quick tour creator component
  creator              \* isCreating, the toast shown and the position of
                       \* handleCreateTour

\* What no step of a finalizeTour call changes: the rows it reads, the
\* browser, and the state of the service's other entry points.
environment ==
  << tour_participants, selected_skus, selected_workflows, refreshToken,
     inBrowser, request, guides, earlier, creator >>

observation == << submitted, started, tourLoads, guideGenerated, statusWrites >>

vars == << tour_participants, selected_skus, selected_workflows, status,
           refreshToken, inBrowser, shipHero, pc, selectedOptions, errors,
           tourData, block, stage, participantOrders, batch, query, result,
           orphaned, submitted, started, tourLoads, guideGenerated,
           statusWrites, request, guides, earlier, creator >>

\* The service object and the call before finalizeTour is called.
Idle ==
  /\ status = "draft"
  /\ shipHero = NoShipHero
  /\ pc = "idle"
  /\ selectedOptions = << >>
  /\ errors = << >>
  /\ tourData = NoTour
  /\ block = 0
  /\ stage = "none"
  /\ participantOrders = 0
  /\ batch = NoBatch
  /\ query = 0
  /\ result = NoResult
  /\ orphaned = [ w \in WorkflowOption |-> FALSE ]
  /\ submitted = << >>
  /\ started = << >>
  /\ tourLoads = 0
  /\ guideGenerated = FALSE
  /\ statusWrites = << >>
  /\ request = NoRequest
  /\ guides = {}
  /\ earlier = NoEarlier
  /\ creator = Mounted

Init ==
  /\ tour_participants \in ParticipantCounts
  /\ selected_skus \in SkuLists
  /\ selected_workflows = << >>
  /\ refreshToken \in BOOLEAN
  /\ inBrowser \in BOOLEAN
  /\ Idle

\* ------------------------------------------------------- error strings
\* An error string `${label} failed: ${cause}` is kept as its two parts.
ErrorMsg(label, cause) == [ label |-> label, cause |-> cause ]

\* The label each logic block puts in front of " failed: ".
WorkflowLabel(w) ==
  CASE w = "receive_to_light"   -> "Receive-to-Light Workflow"
    [] w = "pack_to_light"      -> "Pack-to-Light Workflow"
    [] w = "standard_receiving" -> "Standard Receiving PO"
    [] w = "bulk_shipping"      -> "Bulk Shipping SOs"
    [] w = "single_item_batch"  -> "Single-Item Batch SOs"
    [] w = "multi_item_batch"   -> "Multi-Item Batch SOs"

\* The outer catch block returning only the collected workflow errors.
CatchResultWithoutMessage(errs, cause) ==
  [ returned |-> TRUE, success |-> FALSE, errors |-> errs,
    instructionGuide |-> FALSE ]

\* The object returned by the outer catch block.
CatchResult(errs, cause) ==
  [ returned |-> TRUE, success |-> FALSE,
    errors |-> << ErrorMsg("Tour finalization", cause) >> \o errs,
    instructionGuide |-> FALSE ]

\* const salesOrders = [] and const purchaseOrders = [] of finalizeTour:
\* no statement of the service pushes to either array.
salesOrders == << >>
purchaseOrders == << >>

\* The message of the try block always reporting full success.
SuccessMessageFixed(errs) ==
  [ text |-> "Tour finalized successfully with all selected workflows.",
    count |-> 0 ]

\* successMessage: the text and the number interpolated into it.
SuccessMessage(errs) ==
  IF Len(errs) > 0
    THEN [ text |-> "Tour finalized with workflow error(s).",
           count |-> Len(errs) ]
    ELSE [ text |-> "Tour finalized successfully with all selected workflows.",
           count |-> 0 ]

\* The try block attaching the guide only to an error-free run.
ReturnResultGuideOnSuccess(errs) ==
  [ returned |-> TRUE, success |-> (Len(errs) = 0), errors |-> errs,
    instructionGuide |-> (Len(errs) = 0),
    message |-> SuccessMessage(errs),
    orders |-> [ sales_orders |-> salesOrders,
                 purchase_orders |-> purchaseOrders ] ]

\* The object returned at the end of the try block.
ReturnResult(errs) ==
  [ returned |-> TRUE, success |-> (Len(errs) = 0), errors |-> errs,
    instructionGuide |-> TRUE,
    message |-> SuccessMessage(errs),
    orders |-> [ sales_orders |-> salesOrders,
                 purchase_orders |-> purchaseOrders ] ]

\* The outer catch block returning its own error alone, without the workflow
\* errors collected before it.
CatchDroppingErrors(cause) ==
  /\ result' = CatchResult(<< >>, cause)
  /\ pc' = "done"
  /\ block' = 0
  /\ stage' = "none"
  /\ query' = 0
  /\ batch' = NoBatch
  /\ UNCHANGED << errors, participantOrders >>

\* The outer catch block of finalizeTour: the call returns.
Catch(cause) ==
  /\ result' = CatchResult(errors, cause)
  /\ pc' = "done"
  /\ block' = 0
  /\ stage' = "none"
  /\ query' = 0
  /\ batch' = NoBatch
  /\ UNCHANGED << errors, participantOrders >>

\* A logic block without its own try/catch: the error reaches the outer catch.
CatchWorkflowRethrows(cause) == Catch(cause)

\* The catch block of logic block `block`: the error is collected and the
\* call goes on with the next logic block.
CatchWorkflow(cause) ==
  /\ errors' = Append(errors, ErrorMsg(WorkflowLabel(LogicBlocks[block]), cause))
  /\ pc' = "dispatch"
  /\ block' = block + 1
  /\ stage' = "none"
  /\ batch' = NoBatch
  /\ participantOrders' = 0
  /\ UNCHANGED << result, query >>

\* ------------------------------------------------- session and tour load
\* finalizeTour up to its first await, inside initializeShipHero.
finalizeTour ==
  /\ pc = "idle"
  /\ \E options \in OptionLists : selectedOptions' = options
  /\ IF ~inBrowser
       THEN Catch("Tour finalization service must be used in browser environment.")
       ELSE IF ~refreshToken
         THEN Catch("ShipHero refresh token is required.")
         ELSE /\ pc' = "token"
              /\ UNCHANGED << errors, result, block, stage, query, batch,
                              participantOrders >>
  /\ UNCHANGED << environment, observation, status, shipHero, tourData,
                  orphaned >>

TokenOutcomes == { "ok", "not_ok", "error" }

\* initializeShipHero without the `!tokenResponse.ok` check: the body of a
\* refused token request is read as if it held a token.
initializeShipHeroUnchecked(outcome) ==
  /\ pc = "token"
  /\ IF outcome \in { "ok", "not_ok" }
       THEN /\ shipHero' = (IF outcome = "ok" THEN OwnToken ELSE NoShipHero)
            /\ pc' = "load"
            /\ query' = 1
            /\ tourLoads' = tourLoads + 1
            /\ UNCHANGED << errors, result, block, stage, batch,
                            participantOrders >>
       ELSE /\ Catch("Failed to get ShipHero access token.")
            /\ UNCHANGED << shipHero, tourLoads >>
  /\ UNCHANGED << environment, status, selectedOptions, tourData, orphaned,
                  submitted, started, guideGenerated, statusWrites >>

\* The answer to POST /api/shiphero/refresh-token; on success the call goes
\* on into getTourDetails and issues the tours query.
initializeShipHero(outcome) ==
  /\ pc = "token"
  /\ IF outcome = "ok"
       THEN /\ shipHero' = OwnToken
            /\ pc' = "load"
            /\ query' = 1
            /\ tourLoads' = tourLoads + 1
            /\ UNCHANGED << errors, result, block, stage, batch,
                            participantOrders >>
       ELSE /\ Catch("Failed to get ShipHero access token.")
            /\ UNCHANGED << shipHero, tourLoads >>
  /\ UNCHANGED << environment, status, selectedOptions, tourData, orphaned,
                  submitted, started, guideGenerated, statusWrites >>

\* The error getTourDetails throws when its q-th query returns an error.
QueryError(q) ==
  CASE q = 1 -> "Failed to fetch tour"
    [] q = 2 -> "Failed to fetch warehouse"
    [] q = 3 -> "Failed to fetch host"
    [] OTHER -> "Failed to fetch participants"

\* The aggregate getTourDetails returns from the rows of the datastore.
TourAggregate ==
  [ loaded |-> TRUE, participants |-> tour_participants,
    selected_skus |-> selected_skus,
    selected_workflows |-> selected_workflows, host |-> HostName ]

\* getTourDetails treating an empty participant list as a failed load.
getTourDetailsRequiresParticipants(ok) ==
  /\ pc = "load"
  /\ IF ~ok
       THEN /\ Catch(QueryError(query))
            /\ UNCHANGED tourData
       ELSE IF query < TourQueries
         THEN /\ query' = query + 1
              /\ UNCHANGED << pc, tourData, block, errors, result, stage,
                              batch, participantOrders >>
         ELSE IF tour_participants = 0
           THEN /\ Catch("No participants found")
                /\ UNCHANGED tourData
           ELSE /\ tourData' = TourAggregate
                /\ pc' = "dispatch"
                /\ block' = 1
                /\ query' = 0
                /\ UNCHANGED << errors, result, stage, batch,
                                participantOrders >>
  /\ UNCHANGED << environment, observation, status, shipHero, selectedOptions,
                  orphaned >>

\* The answer to one of the four queries of the initial getTourDetails
\* (tours, warehouses, team_members, tour_participants).
getTourDetails(ok) ==
  /\ pc = "load"
  /\ IF ~ok
       THEN /\ Catch(QueryError(query))
            /\ UNCHANGED tourData
       ELSE IF query < TourQueries
         THEN /\ query' = query + 1
              /\ UNCHANGED << pc, tourData, block, errors, result, stage,
                              batch, participantOrders >>
         ELSE /\ tourData' = TourAggregate
              /\ pc' = "dispatch"
              /\ block' = 1
              /\ query' = 0
              /\ UNCHANGED << errors, result, stage, batch, participantOrders >>
  /\ UNCHANGED << environment, observation, status, shipHero, selectedOptions,
                  orphaned >>

\* ------------------------------------------------------ workflow handlers
\* The workflow whose logic block is being executed.
Running == LogicBlocks[block]

NoSkus == Len(tourData.selected_skus) = 0

\* The batch of requests one helper call issues: `count` orders of one kind
\* numbered `${prefix}-1` .. `${prefix}-${count}` (a purchase order: one
\* order whose number is the prefix), addressed to names of one source.
OrderBatch(kind, prefix, count, identity) ==
  [ kind |-> kind, prefix |-> prefix, count |-> count, identity |-> identity,
    workflow |-> Running, token |-> shipHero ]

\* The requests a `for (let i = 0; i < count; i++)` loop issues.
SalesOrders(prefix, count, identity) ==
  OrderBatch("sales_order", prefix, count, identity)

\* order_number / po_number of the i-th request of batch b.
OrderNumber(b, i) ==
  IF b.kind = "purchase_order" THEN b.prefix
  ELSE b.prefix \o << ToString(i) >>

\* First argument of createParticipantOrders / createStandardReceivingPO.
WorkflowName(w) ==
  CASE w = "receive_to_light"   -> << "R2L" >>
    [] w = "pack_to_light"      -> << "P2L" >>
    [] w = "standard_receiving" -> << "STANDARD", "RECEIVING" >>
    [] w = "bulk_shipping"      -> << "BULK" >>
    [] w = "single_item_batch"  -> << "SINGLE" >>
    [] w = "multi_item_batch"   -> << "MULTI" >>

\* The demo-order prefixes with the single-item handler passing the prefix
\* of the bulk handler.
DemoPrefixShared(w) ==
  CASE w = "pack_to_light"      -> << "P2L", "HOST" >>
    [] w = "bulk_shipping"      -> << "BULK", "DEMO" >>
    [] w = "single_item_batch"  -> << "BULK", "DEMO" >>
    [] w = "multi_item_batch"   -> << "MULTI", "DEMO" >>

\* orderPrefix argument of the demo-order helper a handler calls.
DemoPrefix(w) ==
  CASE w = "pack_to_light"      -> << "P2L", "HOST" >>
    [] w = "bulk_shipping"      -> << "BULK", "DEMO" >>
    [] w = "single_item_batch"  -> << "SINGLE", "DEMO" >>
    [] w = "multi_item_batch"   -> << "MULTI", "DEMO" >>

\* count argument of the demo-order helper a handler calls.
DemoCount(w) ==
  CASE w = "pack_to_light"      -> HostDemoCount
    [] w = "bulk_shipping"      -> BulkDemoCount
    [] w = "single_item_batch"  -> SingleDemoCount
    [] w = "multi_item_batch"   -> MultiDemoCount

\* Each handler as the helper it calls next, given the helper that just
\* returned (`from`, "entry" on entry) and the number of orders it returned.
createReceiveToLightWorkflowOrders(from, n) ==
  IF from = "entry" THEN "createStandardReceivingPO" ELSE "return"

\* The pack-to-light handler creating the host orders whether or not
\* participant orders were created.
createPackToLightWorkflowOrdersAlwaysHost(from, n) ==
  CASE from = "entry" -> "createParticipantOrders"
    [] from = "createParticipantOrders" -> "createHostDemoOrders"
    [] from = "createHostDemoOrders" -> "createStandardReceivingPO"
    [] OTHER -> "return"

createPackToLightWorkflowOrders(from, n) ==
  CASE from = "entry" -> "createParticipantOrders"
    [] from = "createParticipantOrders" ->
         IF n = 0 THEN "createHostDemoOrders" ELSE "createStandardReceivingPO"
    [] from = "createHostDemoOrders" -> "createStandardReceivingPO"
    [] OTHER -> "return"

createBulkShippingSOs(from, n) ==
  CASE from = "entry" -> "createParticipantOrders"
    [] from = "createParticipantOrders" -> "createDemoOrders"
    [] OTHER -> "return"

createSingleItemBatchSOs(from, n) ==
  CASE from = "entry" -> "createParticipantOrders"
    [] from = "createParticipantOrders" -> "createDemoOrders"
    [] OTHER -> "return"

createMultiItemBatchSOs(from, n) ==
  CASE from = "entry" -> "createParticipantOrders"
    [] from = "createParticipantOrders" -> "createMultiItemDemoOrders"
    [] OTHER -> "return"

\* The handler each logic block calls.
Handler(w, from, n) ==
  CASE w = "receive_to_light"   -> createReceiveToLightWorkflowOrders(from, n)
    [] w = "pack_to_light"      -> createPackToLightWorkflowOrders(from, n)
    [] w = "standard_receiving" ->
         IF from = "entry" THEN "createStandardReceivingPO" ELSE "return"
    [] w = "bulk_shipping"      -> createBulkShippingSOs(from, n)
    [] w = "single_item_batch"  -> createSingleItemBatchSOs(from, n)
    [] w = "multi_item_batch"   -> createMultiItemBatchSOs(from, n)

\* Helper `from` returned n orders to the running handler: the handler calls
\* its next helper, or returns to finalizeTour, which moves to the next block.
Resume(from, n) ==
  /\ IF Handler(Running, from, n) = "return"
       THEN /\ pc' = "dispatch"
            /\ block' = block + 1
            /\ stage' = "none"
            /\ participantOrders' = 0
       ELSE /\ pc' = "call"
            /\ stage' = Handler(Running, from, n)
            /\ participantOrders' =
                 IF from = "createParticipantOrders" THEN n
                 ELSE participantOrders
            /\ UNCHANGED block
  /\ batch' = NoBatch
  /\ UNCHANGED << errors, result, query >>

\* The running helper issued the requests of `orders` and awaits them.
Await(orders) ==
  /\ submitted' = Append(submitted, orders)
  /\ batch' = [ pending |-> orders.count, created |-> 0 ]
  /\ pc' = "await"
  /\ UNCHANGED << errors, result, query, block, stage, participantOrders >>

\* Variables no handler step touches.
handlerFrame == << environment, status, shipHero, selectedOptions, tourData,
                   started, tourLoads, guideGenerated, statusWrites >>

\* The submissions a rejected Promise.all over batch b leaves in flight.
Abandoned(b) == b.pending - 1

\* A logic block whose option is selected: finalizeTour calls the handler.
RunLogicBlock ==
  /\ pc = "dispatch"
  /\ block \in DOMAIN LogicBlocks
  /\ Includes(selectedOptions, Running)
  /\ started' = Append(started, Running)
  /\ pc' = "call"
  /\ stage' = Handler(Running, "entry", 0)
  /\ participantOrders' = 0
  /\ UNCHANGED << environment, status, shipHero, selectedOptions, tourData,
                  errors, block, batch, query, result, orphaned, submitted,
                  tourLoads, guideGenerated, statusWrites >>

\* A logic block whose option is not selected.
SkipLogicBlock ==
  /\ pc = "dispatch"
  /\ block \in DOMAIN LogicBlocks
  /\ ~Includes(selectedOptions, Running)
  /\ block' = block + 1
  /\ UNCHANGED << environment, observation, status, shipHero, selectedOptions,
                  tourData, errors, pc, stage, participantOrders, batch, query,
                  result, orphaned >>

\* createParticipantOrders up to `await Promise.all(orderPromises)`.
createParticipantOrders ==
  /\ pc = "call"
  /\ stage = "createParticipantOrders"
  /\ IF tourData.participants = 0
       THEN /\ Resume("createParticipantOrders", 0)
            /\ UNCHANGED submitted
       ELSE IF NoSkus
         THEN /\ CatchWorkflow("No SKUs selected for orders.")
              /\ UNCHANGED submitted
         ELSE Await(SalesOrders(WorkflowName(Running) \o << "PARTICIPANT" >>,
                                tourData.participants, "participant"))
  /\ UNCHANGED << handlerFrame, orphaned >>

\* createDemoOrders without its `selected_skus.length === 0` check: the
\* loop builds its orders around an undefined SKU.
createDemoOrdersUnchecked ==
  /\ pc = "call"
  /\ stage = "createDemoOrders"
  /\ Await(SalesOrders(DemoPrefix(Running), DemoCount(Running), "celebrity"))
  /\ UNCHANGED << handlerFrame, orphaned >>

\* createDemoOrders up to `await Promise.all(orderPromises)`.
createDemoOrders ==
  /\ pc = "call"
  /\ stage = "createDemoOrders"
  /\ IF NoSkus
       THEN /\ CatchWorkflow("No SKUs selected for orders.")
            /\ UNCHANGED submitted
       ELSE Await(SalesOrders(DemoPrefix(Running), DemoCount(Running),
                              "celebrity"))
  /\ UNCHANGED << handlerFrame, orphaned >>

\* createMultiItemDemoOrders up to `await Promise.all(orderPromises)`.
createMultiItemDemoOrders ==
  /\ pc = "call"
  /\ stage = "createMultiItemDemoOrders"
  /\ IF NoSkus
       THEN /\ CatchWorkflow("No SKUs selected for Multi-Item Demo Orders.")
            /\ UNCHANGED submitted
       ELSE Await(SalesOrders(DemoPrefix(Running), DemoCount(Running),
                              "celebrity"))
  /\ UNCHANGED << handlerFrame, orphaned >>

\* createHostDemoOrders up to `await Promise.all(orderPromises)`.
createHostDemoOrders ==
  /\ pc = "call"
  /\ stage = "createHostDemoOrders"
  /\ IF NoSkus
       THEN /\ CatchWorkflow("No SKUs selected for orders.")
            /\ UNCHANGED submitted
       ELSE Await(SalesOrders(DemoPrefix(Running), DemoCount(Running),
                              "host"))
  /\ UNCHANGED << handlerFrame, orphaned >>

\* createStandardReceivingPO without its check of selected_skus: a purchase
\* order without lines is submitted for a tour with no SKU.
createStandardReceivingPOUnchecked ==
  /\ pc = "call"
  /\ stage = "createStandardReceivingPO"
  /\ Await(OrderBatch("purchase_order",
                      WorkflowName(Running) \o tourData.host \o Today,
                      1, "vendor"))
  /\ UNCHANGED << handlerFrame, orphaned >>

\* createStandardReceivingPO up to `await this.createPurchaseOrderViaAPI`.
createStandardReceivingPO ==
  /\ pc = "call"
  /\ stage = "createStandardReceivingPO"
  /\ IF NoSkus
       THEN /\ CatchWorkflow("No SKUs selected for PO.")
            /\ UNCHANGED submitted
       ELSE Await(OrderBatch("purchase_order",
                             WorkflowName(Running) \o tourData.host \o Today,
                             1, "vendor"))
  /\ UNCHANGED << handlerFrame, orphaned >>

\* ------------------------------------------------- order system responses
SubmissionOutcomes == { "order", "no_order", "error" }

SalesOrderHelpers ==
  { "createParticipantOrders", "createDemoOrders",
    "createMultiItemDemoOrders", "createHostDemoOrders" }

\* Promise.all over the batch after one more submission settled with
\* `outcome`: "rejected" as soon as one submission throws, "fulfilled" when
\* every submission has returned a response, "pending" otherwise.
PromiseAll(b, outcome) ==
  IF outcome = "error" THEN "rejected"
  ELSE IF b.pending = 1 THEN "fulfilled"
  ELSE "pending"

\* results.filter(result => result.data?.order_create?.order).length after
\* one more response.
Successful(b, outcome) ==
  IF outcome = "order" THEN b.created + 1 ELSE b.created

\* A helper that catches the rejection of its Promise.all and returns the
\* orders created so far, so that the handler goes on to its next batch.
createSalesOrderViaAPISwallowing(outcome) ==
  /\ pc = "await"
  /\ stage \in SalesOrderHelpers
  /\ batch.pending > 0
  /\ CASE PromiseAll(batch, outcome) = "rejected" ->
            /\ Resume(stage, batch.created)
            /\ orphaned' = [ orphaned EXCEPT
                               ![Running] = @ \/ Abandoned(batch) > 0 ]
       [] PromiseAll(batch, outcome) = "fulfilled" ->
            /\ Resume(stage, Successful(batch, outcome))
            /\ UNCHANGED orphaned
       [] OTHER ->
            /\ batch' = [ pending |-> batch.pending - 1,
                          created |-> Successful(batch, outcome) ]
            /\ UNCHANGED << pc, block, stage, participantOrders, errors,
                            result, query, orphaned >>
  /\ UNCHANGED << handlerFrame, submitted >>

\* One submission of the awaited sales-order batch is answered:
\* createSalesOrderViaAPI returns the response body or throws on a response
\* that is not ok, and the awaiting helper continues when Promise.all settles.
createSalesOrderViaAPI(outcome) ==
  /\ pc = "await"
  /\ stage \in SalesOrderHelpers
  /\ batch.pending > 0
  /\ CASE PromiseAll(batch, outcome) = "rejected" ->
            /\ CatchWorkflow("Failed to create sales order")
            /\ orphaned' = [ orphaned EXCEPT
                               ![Running] = @ \/ Abandoned(batch) > 0 ]
       [] PromiseAll(batch, outcome) = "fulfilled" ->
            /\ Resume(stage, Successful(batch, outcome))
            /\ UNCHANGED orphaned
       [] OTHER ->
            /\ batch' = [ pending |-> batch.pending - 1,
                          created |-> Successful(batch, outcome) ]
            /\ UNCHANGED << pc, block, stage, participantOrders, errors,
                            result, query, orphaned >>
  /\ UNCHANGED << handlerFrame, submitted >>

\* createStandardReceivingPO going on when the response holds no purchase
\* order, as the sales-order helpers do for a response without an order.
createPurchaseOrderViaAPILenient(outcome) ==
  /\ pc = "await"
  /\ stage = "createStandardReceivingPO"
  /\ batch.pending > 0
  /\ CASE outcome = "error" ->
            CatchWorkflow("Failed to create purchase order")
       [] OTHER ->
            Resume(stage, IF outcome = "order" THEN 1 ELSE 0)
  /\ UNCHANGED << handlerFrame, submitted, orphaned >>

\* The purchase-order submission is answered: createPurchaseOrderViaAPI
\* throws on a response that is not ok, createStandardReceivingPO throws on
\* a response without a purchase order.
createPurchaseOrderViaAPI(outcome) ==
  /\ pc = "await"
  /\ stage = "createStandardReceivingPO"
  /\ batch.pending > 0
  /\ CASE outcome = "error" ->
            CatchWorkflow("Failed to create purchase order")
       [] outcome = "no_order" ->
            CatchWorkflow("Failed to create PO")
       [] OTHER ->
            Resume(stage, 1)
  /\ UNCHANGED << handlerFrame, submitted, orphaned >>

\* Submissions of workflow w that the call is awaiting.
Awaited(w) ==
  IF pc = "await" /\ Running = w THEN batch.pending ELSE 0

\* Some submission of workflow w is issued and not answered.
Outstanding(w) == Awaited(w) > 0 \/ orphaned[w]

\* The last submission workflow w left in flight behind a rejected batch is
\* answered: nobody reads the answer.
OrphanResponse(w) ==
  /\ orphaned[w]
  /\ orphaned' = [ orphaned EXCEPT ![w] = FALSE ]
  /\ UNCHANGED << environment, observation, status, shipHero, pc,
                  selectedOptions, errors, tourData, block, stage,
                  participantOrders, batch, query, result >>

\* ------------------------------------------------- guide and status write
\* finalizeTour going on to the guide after any logic block, leaving the
\* remaining ones out.
generateInstructionGuideEarly ==
  /\ pc = "dispatch"
  /\ block >= 2
  /\ pc' = "guide"
  /\ query' = 1
  /\ block' = 0
  /\ UNCHANGED << environment, observation, status, shipHero, selectedOptions,
                  errors, tourData, stage, participantOrders, batch, result,
                  orphaned >>

\* After the last logic block finalizeTour calls generateInstructionGuide,
\* which calls getTourDetails again and awaits its first query.
generateInstructionGuide ==
  /\ pc = "dispatch"
  /\ block = Len(LogicBlocks) + 1
  /\ pc' = "guide"
  /\ query' = 1
  /\ block' = 0
  /\ UNCHANGED << environment, observation, status, shipHero, selectedOptions,
                  errors, tourData, stage, participantOrders, batch, result,
                  orphaned >>

\* finalizeTour marking the tour finalized only when no workflow failed.
RequestStatusUpdateIfNoErrors ==
  IF Len(errors) = 0
    THEN /\ statusWrites' = Append(statusWrites, "finalized")
         /\ pc' = "status"
         /\ UNCHANGED << result, errors >>
    ELSE /\ result' = ReturnResult(errors)
         /\ pc' = "done"
         /\ UNCHANGED << statusWrites, errors >>

\* finalizeTour after the guide is rendered: it sends the status update and
\* awaits the datastore.
RequestStatusUpdate ==
  /\ statusWrites' = Append(statusWrites, "finalized")
  /\ pc' = "status"
  /\ UNCHANGED << result, errors >>

\* The guide's getTourDetails issuing its first query again whenever one of
\* its queries fails.
GuideTourDetailsRetrying(ok) ==
  /\ pc = "guide"
  /\ IF ~ok
       THEN /\ query' = 1
            /\ UNCHANGED << pc, block, errors, result, stage, batch,
                            participantOrders, guideGenerated, statusWrites >>
       ELSE IF query < TourQueries
         THEN /\ query' = query + 1
              /\ UNCHANGED << pc, block, errors, result, stage, batch,
                              participantOrders, guideGenerated, statusWrites >>
         ELSE /\ guideGenerated' = TRUE
              /\ RequestStatusUpdate
              /\ query' = 0
              /\ UNCHANGED << block, stage, batch, participantOrders >>
  /\ UNCHANGED << environment, status, shipHero, selectedOptions, tourData,
                  orphaned, submitted, started, tourLoads >>

\* The answer to one of the four queries of the guide's getTourDetails; after
\* the last one the guide is rendered and finalizeTour calls updateTourStatus.
GuideTourDetails(ok) ==
  /\ pc = "guide"
  /\ IF ~ok
       THEN /\ Catch(QueryError(query))
            /\ UNCHANGED << guideGenerated, statusWrites >>
       ELSE IF query < TourQueries
         THEN /\ query' = query + 1
              /\ UNCHANGED << pc, block, errors, result, stage, batch,
                              participantOrders, guideGenerated, statusWrites >>
         ELSE /\ guideGenerated' = TRUE
              /\ RequestStatusUpdate
              /\ query' = 0
              /\ UNCHANGED << block, stage, batch, participantOrders >>
  /\ UNCHANGED << environment, status, shipHero, selectedOptions, tourData,
                  orphaned, submitted, started, tourLoads >>

\* A status update that puts the tour back to draft when the datastore
\* reports an error.
updateTourStatusRollingBack(ok) ==
  /\ pc = "status"
  /\ IF ok
       THEN /\ status' = statusWrites[Len(statusWrites)]
            /\ result' = ReturnResult(errors)
            /\ pc' = "done"
            /\ UNCHANGED << block, stage, query, batch, errors,
                            participantOrders >>
       ELSE /\ Catch("Failed to update tour status")
            /\ status' = "draft"
  /\ UNCHANGED << environment, observation, shipHero, selectedOptions,
                  tourData, orphaned >>

\* The datastore answers the status update and finalizeTour returns.
updateTourStatus(ok) ==
  /\ pc = "status"
  /\ IF ok
       THEN /\ status' = statusWrites[Len(statusWrites)]
            /\ result' = ReturnResult(errors)
            /\ pc' = "done"
            /\ UNCHANGED << block, stage, query, batch, errors,
                            participantOrders >>
       ELSE /\ Catch("Failed to update tour status")
            /\ UNCHANGED status
  /\ UNCHANGED << environment, observation, shipHero, selectedOptions,
                  tourData, orphaned >>

Next ==
  \/ finalizeTour
  \/ \E outcome \in TokenOutcomes : initializeShipHero(outcome)
  \/ \E ok \in BOOLEAN : getTourDetails(ok)
  \/ RunLogicBlock
  \/ SkipLogicBlock
  \/ createParticipantOrders
  \/ createDemoOrders
  \/ createMultiItemDemoOrders
  \/ createHostDemoOrders
  \/ createStandardReceivingPO
  \/ \E outcome \in SubmissionOutcomes : createSalesOrderViaAPI(outcome)
  \/ \E outcome \in SubmissionOutcomes : createPurchaseOrderViaAPI(outcome)
  \/ \E w \in WorkflowOption : OrphanResponse(w)
  \/ generateInstructionGuide
  \/ \E ok \in BOOLEAN : GuideTourDetails(ok)
  \/ \E ok \in BOOLEAN : updateTourStatus(ok)

Spec == Init /\ [][Next]_vars

TypeOK ==
  /\ pc \in { "idle", "token", "load", "dispatch", "call", "await", "guide",
              "status", "done" }
  /\ block \in 0..(Len(LogicBlocks) + 1)
  /\ pc = "await" => batch.pending > 0

\* A finalizeTour call for which the order system creates every order
\* submitted to it.
NextAllCreated ==
  \/ finalizeTour
  \/ \E outcome \in TokenOutcomes : initializeShipHero(outcome)
  \/ \E ok \in BOOLEAN : getTourDetails(ok)
  \/ RunLogicBlock
  \/ SkipLogicBlock
  \/ createParticipantOrders
  \/ createDemoOrders
  \/ createMultiItemDemoOrders
  \/ createHostDemoOrders
  \/ createStandardReceivingPO
  \/ createSalesOrderViaAPI("order")
  \/ createPurchaseOrderViaAPI("order")
  \/ generateInstructionGuide
  \/ \E ok \in BOOLEAN : GuideTourDetails(ok)
  \/ \E ok \in BOOLEAN : updateTourStatus(ok)

SpecAllCreated == Init /\ [][NextAllCreated]_vars

\* The answers to a purchase-order submission that create no purchase order.
PoRefusals == { "no_order", "error" }

\* A finalizeTour call for which the order system creates no purchase order:
\* every purchase-order submission is refused or answered without one.
NextPoRefused ==
  \/ finalizeTour
  \/ \E outcome \in TokenOutcomes : initializeShipHero(outcome)
  \/ \E ok \in BOOLEAN : getTourDetails(ok)
  \/ RunLogicBlock
  \/ SkipLogicBlock
  \/ createParticipantOrders
  \/ createDemoOrders
  \/ createMultiItemDemoOrders
  \/ createHostDemoOrders
  \/ createStandardReceivingPO
  \/ \E outcome \in SubmissionOutcomes : createSalesOrderViaAPI(outcome)
  \/ \E outcome \in PoRefusals : createPurchaseOrderViaAPI(outcome)
  \/ \E w \in WorkflowOption : OrphanResponse(w)
  \/ generateInstructionGuide
  \/ \E ok \in BOOLEAN : GuideTourDetails(ok)
  \/ \E ok \in BOOLEAN : updateTourStatus(ok)

SpecPoRefused == Init /\ [][NextPoRefused]_vars

\* The steps of a call after its start: an answer to the request the call is
\* awaiting, or the synchronous code that follows an answer.  The start of a
\* call is the caller's choice and is not among them.
Responds ==
  \/ \E outcome \in TokenOutcomes : initializeShipHero(outcome)
  \/ \E ok \in BOOLEAN : getTourDetails(ok)
  \/ RunLogicBlock
  \/ SkipLogicBlock
  \/ createParticipantOrders
  \/ createDemoOrders
  \/ createMultiItemDemoOrders
  \/ createHostDemoOrders
  \/ createStandardReceivingPO
  \/ \E outcome \in SubmissionOutcomes : createSalesOrderViaAPI(outcome)
  \/ \E outcome \in SubmissionOutcomes : createPurchaseOrderViaAPI(outcome)
  \/ generateInstructionGuide
  \/ \E ok \in BOOLEAN : GuideTourDetails(ok)
  \/ \E ok \in BOOLEAN : updateTourStatus(ok)

\* A finalizeTour call and the answers it awaits; the answers to submissions
\* left behind by a rejected Promise.all are awaited by nothing and left out.
LiveNext ==
  \/ finalizeTour
  \/ Responds

\* A finalizeTour call in an environment where every awaited request is
\* eventually answered (with an order, without one, or with an error) and
\* the event loop eventually runs the continuation of every answer.
LiveSpec == Init /\ [][LiveNext]_vars /\ WF_vars(Responds)

\* ------------------------------------------------- calls on one instance
\* Another finalizeTour call on the same service object gets the answer to
\* its token request: its initializeShipHero assigns this.shipHero.
concurrentInitializeShipHero ==
  /\ inBrowser
  /\ refreshToken
  /\ shipHero # OtherToken
  /\ shipHero' = OtherToken
  /\ UNCHANGED << environment, observation, status, pc, selectedOptions,
                  errors, tourData, block, stage, participantOrders, batch,
                  query, result, orphaned >>

\* A finalizeTour call and the session initializations of other calls on
\* the same instance.
NextShared ==
  \/ finalizeTour
  \/ \E outcome \in TokenOutcomes : initializeShipHero(outcome)
  \/ \E ok \in BOOLEAN : getTourDetails(ok)
  \/ RunLogicBlock
  \/ SkipLogicBlock
  \/ createParticipantOrders
  \/ createDemoOrders
  \/ createMultiItemDemoOrders
  \/ createHostDemoOrders
  \/ createStandardReceivingPO
  \/ \E outcome \in SubmissionOutcomes : createSalesOrderViaAPI(outcome)
  \/ \E outcome \in SubmissionOutcomes : createPurchaseOrderViaAPI(outcome)
  \/ \E w \in WorkflowOption : OrphanResponse(w)
  \/ generateInstructionGuide
  \/ \E ok \in BOOLEAN : GuideTourDetails(ok)
  \/ \E ok \in BOOLEAN : updateTourStatus(ok)
  \/ concurrentInitializeShipHero

SpecShared == Init /\ [][NextShared]_vars

\* ----------------------------------------------------------- order payloads
\* The request bodies the helpers build.  A decimal string ("10.00", "45") is
\* kept as the amount in cents it denotes.
ParticipantSkuLimit == 3
ParticipantQuantity == 1
ParticipantPending == 1
ParticipantPrice == 1000
ParticipantRate == 10
DemoPrice == 1500
DemoRate == 15
MultiPrice == 1200
MultiRate == 12
MinItems == 2
ItemsSpread == 3
MinQuantity == 1
QuantitySpread == 3
PoSkuLimit == 6
PoPrice == 0
PoTotal == 0
PoMinQuantity == 5
PoQuantitySpread == 10

\* Values of Math.random(), in tenths.
RandomDraws == { 0, 3, 6, 9 }

\* Math.floor(Math.random() * n)
RandomInt(r, n) == (r * n) \div 10

\* (n).toString() read as an amount of money.
Dollars(n) == n * 100

Min(a, b) == IF a < b THEN a ELSE b

\* Array.prototype.slice(0, n)
Slice(list, n) == SubSeq(list, 1, Min(n, Len(list)))

\* Tours with no SKU, with fewer SKUs than any limit of the helpers and with
\* more SKUs than a purchase order takes.
PayloadSkuLists == { SubSeq(SkuPool, 1, n) : n \in 0..Len(SkuPool) }

\* lineItems of a participant order taking every selected SKU.
ParticipantLineItemsUncapped(data) ==
  [ k \in DOMAIN data.selected_skus |->
      [ sku |-> data.selected_skus[k], quantity |-> ParticipantQuantity,
        price |-> ParticipantPrice,
        quantity_pending_fulfillment |-> ParticipantPending ] ]

\* lineItems of a participant order.
ParticipantLineItems(data) ==
  LET skus == Slice(data.selected_skus, ParticipantSkuLimit) IN
    [ k \in DOMAIN skus |->
        [ sku |-> skus[k], quantity |-> ParticipantQuantity,
          price |-> ParticipantPrice,
          quantity_pending_fulfillment |-> ParticipantPending ] ]

\* lineItems of a demo order always taking the first selected SKU.
DemoLineItemsFirstSku(data, i, r, p) ==
  << [ sku |-> data.selected_skus[1],
       quantity |-> RandomInt(r, QuantitySpread) + MinQuantity,
       price |-> DemoPrice,
       quantity_pending_fulfillment |->
         RandomInt(p, QuantitySpread) + MinQuantity ] >>

\* lineItems of the i-th (from 0) order of createDemoOrders and of
\* createHostDemoOrders, r being the draw of its quantity and p the draw of
\* its quantity_pending_fulfillment.
DemoLineItems(data, i, r, p) ==
  LET selectedSkuIndex == i % Len(data.selected_skus) IN
    << [ sku |-> data.selected_skus[selectedSkuIndex + 1],
         quantity |-> RandomInt(r, QuantitySpread) + MinQuantity,
         price |-> DemoPrice,
         quantity_pending_fulfillment |->
           RandomInt(p, QuantitySpread) + MinQuantity ] >>

\* A window that steps two SKUs at a time.
SkuIndexStride(i, j, n) == (i + 2 * j) % n

\* skuIndex of the j-th (from 0) line of the i-th (from 0) multi-item order of
\* a tour with n selected SKUs.
SkuIndex(i, j, n) == (i + j) % n

\* lineItems of a multi-item demo order with 2 to 4 items however few SKUs
\* the tour selected.
MultiItemLineItemsUncapped(data, i, r, rs, ps) ==
  LET numItems == RandomInt(r, ItemsSpread) + MinItems
  IN [ k \in 1..numItems |->
         [ sku |-> data.selected_skus[
                     SkuIndex(i, k - 1, Len(data.selected_skus)) + 1],
           quantity |-> RandomInt(rs[((k - 1) % Len(rs)) + 1], QuantitySpread)
                          + MinQuantity,
           price |-> MultiPrice,
           quantity_pending_fulfillment |->
             RandomInt(ps[((k - 1) % Len(ps)) + 1], QuantitySpread)
               + MinQuantity ] ]

\* lineItems of the i-th (from 0) order of createMultiItemDemoOrders, r being
\* the draw of the number of items, rs the draws of the quantities and ps
\* the draws of the quantity_pending_fulfillment values.
MultiItemLineItems(data, i, r, rs, ps) ==
  LET numItems == Min(RandomInt(r, ItemsSpread) + MinItems,
                      Len(data.selected_skus))
  IN [ k \in 1..numItems |->
         [ sku |-> data.selected_skus[
                     SkuIndex(i, k - 1, Len(data.selected_skus)) + 1],
           quantity |-> RandomInt(rs[k], QuantitySpread) + MinQuantity,
           price |-> MultiPrice,
           quantity_pending_fulfillment |->
             RandomInt(ps[k], QuantitySpread) + MinQuantity ] ]

\* line_items of a purchase order drawing quantities as the sales orders do.
PoLineItemsDemoQuantity(data, rs) ==
  LET skusToUse == Slice(data.selected_skus, PoSkuLimit) IN
    [ k \in DOMAIN skusToUse |->
        [ sku |-> skusToUse[k],
          quantity |-> RandomInt(rs[k], QuantitySpread) + MinQuantity,
          price |-> PoPrice ] ]

\* line_items of a purchase order, rs being the draws of the quantities.
PoLineItems(data, rs) ==
  LET skusToUse == Slice(data.selected_skus, PoSkuLimit) IN
    [ k \in DOMAIN skusToUse |->
        [ sku |-> skusToUse[k],
          quantity |-> RandomInt(rs[k], PoQuantitySpread) + PoMinQuantity,
          price |-> PoPrice ] ]

RECURSIVE SumQuantities(_)
\* lineItems.reduce((sum, item) => sum + item.quantity, 0)
SumQuantities(items) ==
  IF items = << >> THEN 0
  ELSE items[1].quantity + SumQuantities(Tail(items))

OrderData(kind, number, identity, lineItems, total) ==
  [ kind |-> kind, number |-> number, identity |-> identity,
    line_items |-> lineItems, subtotal |-> total, total_price |-> total ]

\* orderData of createParticipantOrders.
ParticipantOrderData(data, orderPrefix, i) ==
  LET lineItems == ParticipantLineItems(data) IN
    OrderData("sales_order",
              orderPrefix \o << "PARTICIPANT", ToString(i + 1) >>,
              "participant", lineItems,
              Dollars(Len(lineItems) * ParticipantRate))

\* orderData of createDemoOrders.
DemoOrderData(data, orderPrefix, i, r, p) ==
  LET lineItems == DemoLineItems(data, i, r, p) IN
    OrderData("sales_order", orderPrefix \o << ToString(i + 1) >>,
              "celebrity", lineItems,
              Dollars(lineItems[1].quantity * DemoRate))

\* orderData of createHostDemoOrders.
HostOrderData(data, orderPrefix, i, r, p) ==
  LET lineItems == DemoLineItems(data, i, r, p) IN
    OrderData("sales_order", orderPrefix \o << ToString(i + 1) >>,
              "host", lineItems,
              Dollars(lineItems[1].quantity * DemoRate))

\* orderData of createMultiItemDemoOrders totalling the number of line items
\* instead of their quantities.
MultiItemOrderDataPerLine(data, orderPrefix, i, r, rs, ps) ==
  LET lineItems == MultiItemLineItems(data, i, r, rs, ps) IN
    OrderData("sales_order", orderPrefix \o << ToString(i + 1) >>,
              "celebrity", lineItems,
              Dollars(Len(lineItems) * MultiRate))

\* orderData of createMultiItemDemoOrders.
MultiItemOrderData(data, orderPrefix, i, r, rs, ps) ==
  LET lineItems == MultiItemLineItems(data, i, r, rs, ps) IN
    OrderData("sales_order", orderPrefix \o << ToString(i + 1) >>,
              "celebrity", lineItems,
              Dollars(SumQuantities(lineItems) * MultiRate))

\* poData of createStandardReceivingPO.
PoData(data, workflowName, rs) ==
  OrderData("purchase_order", workflowName \o data.host \o Today, "vendor",
            PoLineItems(data, rs), PoTotal)

\* Variables of a finalizeTour call and of the guide entry point.
finalization ==
  << tour_participants, selected_skus, selected_workflows, refreshToken,
     inBrowser, status, shipHero, pc, selectedOptions, errors, tourData,
     block, stage, participantOrders, batch, query, result, orphaned,
     observation, guides, earlier, creator >>

ParticipantWorkflows ==
  { "pack_to_light", "bulk_shipping", "single_item_batch", "multi_item_batch" }

PoWorkflows == { "receive_to_light", "pack_to_light", "standard_receiving" }

\* One iteration of the loop of createParticipantOrders.
participantOrderData ==
  /\ request = NoRequest
  /\ TourAggregate.participants > 0
  /\ Len(TourAggregate.selected_skus) > 0
  /\ \E w \in ParticipantWorkflows :
       \E i \in 0..(TourAggregate.participants - 1) :
         request' = ParticipantOrderData(TourAggregate, WorkflowName(w), i)
  /\ UNCHANGED finalization

\* One iteration of the loop of createDemoOrders.
demoOrderData ==
  /\ request = NoRequest
  /\ Len(TourAggregate.selected_skus) > 0
  /\ \E w \in { "bulk_shipping", "single_item_batch" } :
       \E i \in 0..(DemoCount(w) - 1), r \in RandomDraws, p \in RandomDraws :
         request' = DemoOrderData(TourAggregate, DemoPrefix(w), i, r, p)
  /\ UNCHANGED finalization

\* One iteration of the loop of createHostDemoOrders.
hostOrderData ==
  /\ request = NoRequest
  /\ Len(TourAggregate.selected_skus) > 0
  /\ \E i \in 0..(HostDemoCount - 1), r \in RandomDraws, p \in RandomDraws :
       request' = HostOrderData(TourAggregate, DemoPrefix("pack_to_light"),
                                i, r, p)
  /\ UNCHANGED finalization

\* One iteration of the outer loop of createMultiItemDemoOrders.
multiItemOrderData ==
  /\ request = NoRequest
  /\ Len(TourAggregate.selected_skus) > 0
  /\ \E i \in 0..(MultiDemoCount - 1), r \in RandomDraws :
       \E rs, ps \in [ 1..Min(RandomInt(r, ItemsSpread) + MinItems,
                              Len(TourAggregate.selected_skus))
                           -> RandomDraws ] :
         request' = MultiItemOrderData(TourAggregate,
                                       DemoPrefix("multi_item_batch"), i, r,
                                       rs, ps)
  /\ UNCHANGED finalization

\* createStandardReceivingPO building poData.
poData ==
  /\ request = NoRequest
  /\ Len(TourAggregate.selected_skus) > 0
  /\ \E w \in PoWorkflows :
       \E rs \in [ 1..Min(PoSkuLimit, Len(TourAggregate.selected_skus))
                     -> RandomDraws ] :
         request' = PoData(TourAggregate, WorkflowName(w), rs)
  /\ UNCHANGED finalization

\* The loop body hands the request it built to createSalesOrderViaAPI or
\* createPurchaseOrderViaAPI and the helper goes on.
submitRequest ==
  /\ request # NoRequest
  /\ request' = NoRequest
  /\ UNCHANGED finalization

PayloadInit ==
  /\ tour_participants \in 0..MaxParticipants
  /\ selected_skus \in PayloadSkuLists
  /\ selected_workflows = << >>
  /\ refreshToken = TRUE
  /\ inBrowser = TRUE
  /\ Idle

PayloadNext ==
  \/ participantOrderData
  \/ demoOrderData
  \/ hostOrderData
  \/ multiItemOrderData
  \/ poData
  \/ submitRequest

PayloadSpec == PayloadInit /\ [][PayloadNext]_vars

\* ------------------------------------------------------ instruction guide
\* generateInstructionGuide called on its own.  The guide is kept as the
\* values its template interpolates and the sequence of its demonstration
\* sections; the rest of its text is fixed.
\* The order of the `if (selectedWorkflows.includes(..))` blocks that add a
\* demonstration section.
GuideBlocks ==
  << "receive_to_light", "pack_to_light", "multi_item_batch",
     "single_item_batch", "bulk_shipping" >>

\* Values of new Date() at the moment the guide is rendered.
Clock ==
  { [ day |-> "9/14/2025", time |-> "9:00:00 AM" ],
    [ day |-> "9/14/2025", time |-> "5:30:00 PM" ],
    [ day |-> "9/15/2025", time |-> "9:00:00 AM" ] }

\* Date.prototype.toLocaleDateString
ToLocaleDateString(now) == << now.day >>

\* Date.prototype.toLocaleString
ToLocaleString(now) == << now.day, now.time >>

\* The demonstration sections added by the blocks from the k-th on, the
\* next section getting the number workflowCounter.
RECURSIVE Demonstrations(_, _, _)
Demonstrations(selectedWorkflows, k, workflowCounter) ==
  IF k > Len(GuideBlocks) THEN << >>
  ELSE IF Includes(selectedWorkflows, GuideBlocks[k])
    THEN << [ number |-> workflowCounter, workflow |-> GuideBlocks[k] ] >>
         \o Demonstrations(selectedWorkflows, k + 1, workflowCounter + 1)
    ELSE Demonstrations(selectedWorkflows, k + 1, workflowCounter)

\* The guide numbering its demonstrations on from those of the guides
\* rendered before, as if workflowCounter were a field of the service.
GuideCountingOn(data, now) ==
  [ date |-> ToLocaleDateString(now),
    host |-> data.host,
    participants |-> data.participants,
    demonstrations |->
      Demonstrations(data.selected_workflows, 1, 1 + Cardinality(guides)),
    skus |-> data.selected_skus,
    generated |-> ToLocaleString(now) ]

\* The guide rendered from the aggregate `data` at time `now`.
Guide(data, now) ==
  [ date |-> ToLocaleDateString(now),
    host |-> data.host,
    participants |-> data.participants,
    demonstrations |-> Demonstrations(data.selected_workflows, 1, 1),
    skus |-> data.selected_skus,
    generated |-> ToLocaleString(now) ]

guideFrame ==
  << tour_participants, selected_skus, selected_workflows, refreshToken,
     inBrowser, status, shipHero, selectedOptions, errors, tourData, block,
     stage, participantOrders, batch, result, orphaned, observation, request,
     earlier, creator >>

\* A caller calls generateInstructionGuide, which calls getTourDetails and
\* awaits its first query.
previewInstructionGuide ==
  /\ pc = "idle"
  /\ pc' = "preview"
  /\ query' = 1
  /\ UNCHANGED << guideFrame, guides >>

\* The control flow of a guide call at the answer to one of the four queries
\* of its getTourDetails: a failed query ends the call, the last answer lets
\* it render the guide and return.
PreviewQuery(ok) ==
  /\ pc = "preview"
  /\ IF ~ok
       THEN /\ pc' = "idle"
            /\ query' = 0
       ELSE IF query < TourQueries
         THEN /\ query' = query + 1
              /\ UNCHANGED pc
         ELSE /\ pc' = "idle"
              /\ query' = 0
  /\ UNCHANGED guideFrame

\* A guide call that marks the tour finalized once the guide is rendered, as
\* finalizeTour does after its own guide.
PreviewTourDetailsFinalizing(ok) ==
  /\ pc = "preview"
  /\ IF ~ok
       THEN /\ pc' = "idle"
            /\ query' = 0
            /\ UNCHANGED << guides, status >>
       ELSE IF query < TourQueries
         THEN /\ query' = query + 1
              /\ UNCHANGED << pc, guides, status >>
         ELSE /\ \E now \in Clock :
                   guides' = guides \cup
                     { [ data |-> TourAggregate, now |-> now,
                         text |-> Guide(TourAggregate, now) ] }
              /\ status' = "finalized"
              /\ pc' = "idle"
              /\ query' = 0
  /\ UNCHANGED << tour_participants, selected_skus, selected_workflows,
                  refreshToken, inBrowser, shipHero, selectedOptions, errors,
                  tourData, block, stage, participantOrders, batch, result,
                  orphaned, observation, request, earlier, creator >>

\* The answer to one of the four queries of the getTourDetails of a guide
\* call; after the last one the guide is rendered and returned.
PreviewTourDetails(ok) ==
  /\ PreviewQuery(ok)
  /\ IF ok /\ query = TourQueries
       THEN \E now \in Clock :
              guides' = guides \cup
                { [ data |-> TourAggregate, now |-> now,
                    text |-> Guide(TourAggregate, now) ] }
       ELSE UNCHANGED guides

GuideInit ==
  /\ tour_participants \in 0..MaxParticipants
  /\ selected_skus \in SkuLists
  /\ selected_workflows \in OptionLists
  /\ refreshToken = TRUE
  /\ inBrowser = TRUE
  /\ Idle

GuideNext ==
  \/ previewInstructionGuide
  \/ \E ok \in BOOLEAN : PreviewTourDetails(ok)

GuideSpec == GuideInit /\ [][GuideNext]_vars

\* ------------------------------------------------------ sequences of calls
\* The caller has the object finalizeTour returned; the call's frame is gone
\* and the service can be called again.  The stored tour and the session
\* the service object holds stay as the call left them.
returnToCaller ==
  /\ pc = "done"
  /\ pc' = "idle"
  /\ selectedOptions' = << >>
  /\ errors' = << >>
  /\ tourData' = NoTour
  /\ block' = 0
  /\ stage' = "none"
  /\ participantOrders' = 0
  /\ batch' = NoBatch
  /\ query' = 0
  /\ result' = NoResult
  /\ orphaned' = [ w \in WorkflowOption |-> FALSE ]
  /\ submitted' = << >>
  /\ started' = << >>
  /\ tourLoads' = 0
  /\ guideGenerated' = FALSE
  /\ statusWrites' = << >>
  /\ UNCHANGED << environment, status, shipHero >>

\* Any sequence of finalizeTour and generateInstructionGuide calls on one
\* service object, one call at a time.
NextCalls ==
  \/ Next
  \/ returnToCaller
  \/ previewInstructionGuide
  \/ \E ok \in BOOLEAN : PreviewQuery(ok) /\ UNCHANGED guides

SpecCalls == Init /\ [][NextCalls]_vars

\* The order system keeps what it was sent: one batch of requests of the
\* call that returned is remembered while later calls run.
rememberSubmission ==
  /\ pc = "done"
  /\ earlier = NoEarlier
  /\ \E k \in DOMAIN submitted : earlier' = submitted[k]
  /\ UNCHANGED << tour_participants, selected_skus, selected_workflows,
                  refreshToken, inBrowser, request, guides, status, shipHero,
                  pc, selectedOptions, errors, tourData, block, stage,
                  participantOrders, batch, query, result, orphaned,
                  observation, creator >>

\* Repeated finalizeTour calls for the same tour on the same date.
NextRepeated ==
  \/ Next
  \/ rememberSubmission
  \/ returnToCaller

SpecRepeated == Init /\ [][NextRepeated]_vars

\* ---------------------------------------------- the guide finalize returns
\* A guide rendered from the workflows named in the argument of finalizeTour.
ReloadedTourDataFromArgument ==
  [ TourAggregate EXCEPT !.selected_workflows = selectedOptions ]

\* The aggregate the getTourDetails call of generateInstructionGuide loads:
\* the stored tour, its selected_workflows included.
ReloadedTourData == TourAggregate

\* The answer to one of the four queries of the guide's getTourDetails, the
\* guide rendered after the last one being kept as the `instructions` field
\* of the object finalizeTour returns.
RenderedGuideTourDetails(ok) ==
  IF ok /\ pc = "guide" /\ query = TourQueries
    THEN /\ \E now \in Clock :
              guides' = guides \cup
                { [ data |-> ReloadedTourData, now |-> now,
                    text |-> Guide(ReloadedTourData, now) ] }
         /\ guideGenerated' = TRUE
         /\ RequestStatusUpdate
         /\ query' = 0
         /\ UNCHANGED << tour_participants, selected_skus, selected_workflows,
                         refreshToken, inBrowser, request, earlier, status,
                         shipHero, selectedOptions, tourData, orphaned,
                         submitted, started, tourLoads, block, stage, batch,
                         participantOrders, creator >>
    ELSE GuideTourDetails(ok)

\* Lists of workflows a tour is stored with: none, or some consecutive ones
\* of the six.
StoredWorkflowLists ==
  { SubSeq(LogicBlocks, i, j) : i, j \in 1..Len(LogicBlocks) }

\* A stored tour with one of these lists, in a browser holding a refresh
\* token.
StoredInit ==
  /\ tour_participants \in ParticipantCounts
  /\ selected_skus \in SkuLists
  /\ selected_workflows \in StoredWorkflowLists
  /\ refreshToken = TRUE
  /\ inBrowser = TRUE
  /\ Idle

\* A finalizeTour call for which the order system creates every order
\* submitted to it, the guide it returns being recorded.
NextStored ==
  \/ finalizeTour
  \/ \E outcome \in TokenOutcomes : initializeShipHero(outcome)
  \/ \E ok \in BOOLEAN : getTourDetails(ok)
  \/ RunLogicBlock
  \/ SkipLogicBlock
  \/ createParticipantOrders
  \/ createDemoOrders
  \/ createMultiItemDemoOrders
  \/ createHostDemoOrders
  \/ createStandardReceivingPO
  \/ createSalesOrderViaAPI("order")
  \/ createPurchaseOrderViaAPI("order")
  \/ generateInstructionGuide
  \/ \E ok \in BOOLEAN : RenderedGuideTourDetails(ok)
  \/ \E ok \in BOOLEAN : updateTourStatus(ok)

SpecStored == StoredInit /\ [][NextStored]_vars

\* ---------------------------------------------------- quick tour creator
\* handleCreateTour of the SimpleQuickTourCreator component.  `creator` holds
\* the isCreating state, the last toast, the await the handler is suspended
\* at, its step and loop index, the kinds of the orders posted so far by the
\* run and the number of them that were created.
\* The four steps of handleCreateTour, in order.
CreatorSteps == << "purchase_order", "multi-item", "single-item", "bulk-ship" >>

\* The number of orders a step submits: one createPurchaseOrder call, then
\* the bounds of the three for loops.
StepOrders(step) ==
  CASE CreatorSteps[step] = "purchase_order" -> 1
    [] CreatorSteps[step] = "multi-item"     -> MultiItemOrders
    [] CreatorSteps[step] = "single-item"    -> SingleItemOrders
    [] CreatorSteps[step] = "bulk-ship"      -> BulkShipOrders

\* What tokenManager.getValidAccessToken() gives: a token, null, or an error.
AccessTokenOutcomes == { "token", "none", "error" }

\* What fetch gives: an ok response, a response that is not ok, a rejection.
FetchOutcomes == { "ok", "not_ok", "rejected" }

\* Everything but the component.
service ==
  << tour_participants, selected_skus, selected_workflows, status,
     refreshToken, inBrowser, shipHero, pc, selectedOptions, errors,
     tourData, block, stage, participantOrders, batch, query, result,
     orphaned, observation, request, guides, earlier >>

\* The button is clicked while enabled: handleCreateTour sets isCreating,
\* shows the "Creating sample orders..." toast and calls createPurchaseOrder,
\* which awaits the access token.
handleCreateTour ==
  /\ ~creator.isCreating
  /\ creator' = [ isCreating |-> TRUE, toast |-> "working",
                  awaiting |-> "token", step |-> 1, i |-> 0, sent |-> << >>,
                  created |-> 0 ]
  /\ UNCHANGED service

\* createPurchaseOrder or createSalesOrder returned its result: the loop goes
\* on to the next order, or the handler shows the success toast and its
\* finally block resets isCreating.
NextOrder ==
  LET returned == [ creator EXCEPT !.created = @ + 1 ] IN
    IF creator.i + 1 < StepOrders(creator.step)
      THEN [ returned EXCEPT !.i = @ + 1, !.awaiting = "token" ]
    ELSE IF creator.step < Len(CreatorSteps)
      THEN [ returned EXCEPT !.step = @ + 1, !.i = 0, !.awaiting = "token" ]
    ELSE [ returned EXCEPT !.toast = "success", !.isCreating = FALSE,
                           !.awaiting = "none" ]

\* A handler that logs the error of a submission and goes on to the next
\* order.
CreatorCatchSkipping ==
  creator' = [ NextOrder EXCEPT !.created = creator.created ]

\* The error rethrown by createPurchaseOrder or createSalesOrder reaches the
\* catch block of handleCreateTour: the error toast is shown and the finally
\* block resets isCreating.
CreatorCatch ==
  creator' = [ creator EXCEPT !.toast = "error", !.isCreating = FALSE,
                              !.awaiting = "none" ]

\* The answer of tokenManager.getValidAccessToken(): with a token the order
\* is posted to /api/shiphero/orders.
getValidAccessToken(outcome) ==
  /\ creator.awaiting = "token"
  /\ IF outcome = "token"
       THEN creator' = [ creator EXCEPT
                           !.awaiting = "fetch",
                           !.sent = Append(@, CreatorSteps[creator.step]) ]
       ELSE CreatorCatch
  /\ UNCHANGED service

\* The answer to the POST: a response that is not ok throws.
fetchOrders(outcome) ==
  /\ creator.awaiting = "fetch"
  /\ IF outcome = "ok"
       THEN creator' = [ creator EXCEPT !.awaiting = "json" ]
       ELSE CreatorCatch
  /\ UNCHANGED service

\* response.json() of an ok response resolves or rejects.
responseJson(ok) ==
  /\ creator.awaiting = "json"
  /\ IF ok THEN creator' = NextOrder ELSE CreatorCatch
  /\ UNCHANGED service

QuickInit ==
  /\ tour_participants = 0
  /\ selected_skus = << >>
  /\ selected_workflows = << >>
  /\ refreshToken = FALSE
  /\ inBrowser = TRUE
  /\ Idle

QuickNext ==
  \/ handleCreateTour
  \/ \E outcome \in AccessTokenOutcomes : getValidAccessToken(outcome)
  \/ \E outcome \in FetchOutcomes : fetchOrders(outcome)
  \/ \E ok \in BOOLEAN : responseJson(ok)

QuickSpec == QuickInit /\ [][QuickNext]_vars

\* ---------------------------------------------------------------- claims
\* Position of a workflow in the documented step order.
StepOrder(w) ==
  CASE w = "receive_to_light"   -> 1
    [] w = "pack_to_light"      -> 2
    [] w = "standard_receiving" -> 3
    [] w = "bulk_shipping"      -> 4
    [] w = "single_item_batch"  -> 5
    [] w = "multi_item_batch"   -> 6

\* The recognized workflows named in the argument.
Selected == { w \in WorkflowOption : Includes(selectedOptions, w) }

\* The workflows with an entry in the error list.
Failed ==
  { w \in WorkflowOption :
      \E i \in DOMAIN errors : errors[i].label = WorkflowLabel(w) }

\* The call got past its last logic block.
HandlersDone == tourData.loaded /\ pc \in { "guide", "status", "done" }

\* The call returned from the outer catch block.
TopLevelFailure(cause) ==
  /\ result.returned
  /\ ~result.success
  /\ ~result.instructionGuide
  /\ Len(result.errors) >= 1
  /\ result.errors[1] = ErrorMsg("Tour finalization", cause)

\* C1: the handlers that run are exactly those of the recognized selected
\* workflows, each at most once, started in the order receive_to_light,
\* pack_to_light, standard_receiving, bulk_shipping, single_item_batch,
\* multi_item_batch whatever the order, duplicates or unrecognized names of
\* selectedOptions; an unrecognized name starts no handler and adds no error.
C1_HandlerOrder ==
  /\ \A i, j \in DOMAIN started :
       i < j => StepOrder(started[i]) < StepOrder(started[j])
  /\ Range(started) \subseteq Selected
  /\ HandlersDone => Range(started) = Selected
  /\ Failed \subseteq Range(started)
  /\ \A i \in DOMAIN errors :
       \E w \in Selected : errors[i].label = WorkflowLabel(w)

\* Two handlers ran although they were selected in the opposite order.
C1_Witness ==
  /\ HandlersDone
  /\ Len(started) = 2
  /\ selectedOptions = << started[2], started[1] >>

\* A handler ran once although it was named twice.
C1_WitnessDuplicate ==
  /\ HandlersDone
  /\ Len(started) = 1
  /\ selectedOptions = << started[1], started[1] >>

\* C2: an exception raised by one selected handler never prevents a later
\* selected handler from running: whichever handlers failed, every selected
\* workflow's handler has been invoked once the logic blocks are over, and
\* the call is never cut short between two logic blocks.
C2_FailureIsolation ==
  /\ HandlersDone => \A w \in Selected : w \in Range(started)
  /\ \A w \in Failed : \A v \in Selected :
       (StepOrder(v) > StepOrder(w) /\ pc \in { "guide", "status", "done" })
         => v \in Range(started)

\* Both selected handlers ran and the first one (indeed both) failed.
C2_Witness ==
  /\ HandlersDone
  /\ Len(started) = 2
  /\ started[1] \in Failed
  /\ started[2] \in Failed

C5_SuccessIffNoErrors ==
  /\ result.returned <=> pc = "done"
  /\ result.returned => (result.success <=> Len(result.errors) = 0)

\* A top-level failure after a workflow error: two errors, success false.
C5_Witness ==
  /\ result.returned
  /\ ~result.instructionGuide
  /\ Len(result.errors) = 2
  /\ ~result.success

\* A normal return with an empty error list and success true.
C5_WitnessSuccess ==
  /\ result.returned
  /\ result.success
  /\ Len(started) = 2

\* C6: when session initialization fails (no refresh token, or the token
\* request not ok) the call returns success=false, no guide and exactly one
\* top-level error, and has loaded no tour, run no handler, submitted no
\* order and sent no status write.
C6_SessionFailsFast ==
  (pc = "done" /\ shipHero = NoShipHero) =>
    /\ \E cause \in { "Tour finalization service must be used in browser environment.",
                      "ShipHero refresh token is required.",
                      "Failed to get ShipHero access token." } :
         TopLevelFailure(cause)
    /\ Len(result.errors) = 1
    /\ tourLoads = 0
    /\ ~tourData.loaded
    /\ started = << >>
    /\ submitted = << >>
    /\ statusWrites = << >>
    /\ status = "draft"

\* The token request was sent and refused.
C6_Witness ==
  /\ pc = "done"
  /\ shipHero = NoShipHero
  /\ refreshToken
  /\ inBrowser
  /\ selectedOptions # << >>

\* C7: when the initial tour load fails (tour, warehouse, host or
\* participants query returns an error) the call runs no handler, submits no
\* order, sends no status write and returns success=false with that query's
\* error as top-level error; these four are the only load failures, so an
\* empty participant list is not one.
C7_LoadFailureAborts ==
  (pc = "done" /\ shipHero # NoShipHero /\ ~tourData.loaded) =>
    /\ \E q \in 1..TourQueries : TopLevelFailure(QueryError(q))
    /\ Len(result.errors) = 1
    /\ started = << >>
    /\ submitted = << >>
    /\ statusWrites = << >>
    /\ status = "draft"

\* The load failed for a tour with selected workflows.
C7_Witness ==
  /\ pc = "done"
  /\ shipHero # NoShipHero
  /\ ~tourData.loaded
  /\ Selected # {}

\* A tour without participants was loaded and its handlers ran.
C7_WitnessNoParticipants ==
  /\ tourData.loaded
  /\ tourData.participants = 0
  /\ started # << >>

\* C8: while a sales-order batch is awaited, the answer to one of its
\* submissions, whatever it is, adds no entry to the error list (the
\* workflow does not fail).
C8_SalesOrderFailureScoped ==
  [][ (pc = "await" /\ stage \in SalesOrderHelpers) => errors' = errors ]_vars

\* C9: fan-in: every submission in flight belongs to the batch the running
\* handler is awaiting, so no handler completes and finalize does not return
\* while a submission is outstanding.
C9_FanIn == \A w \in WorkflowOption : ~orphaned[w]

\* C10: submissions of two different workflows are never outstanding at the
\* same time.
C10_NoCrossWorkflowConcurrency ==
  \A v, w \in WorkflowOption :
    (Outstanding(v) /\ Outstanding(w)) => v = w

\* The order numbers of the requests of the k-th batch submitted.
OrderNumbers(k) ==
  { OrderNumber(submitted[k], i) : i \in 1..submitted[k].count }

\* No two requests of one submitted batch and no two requests of different
\* submitted batches carry the same order number.
NumbersDistinct ==
  /\ \A k \in DOMAIN submitted :
       Cardinality(OrderNumbers(k)) = submitted[k].count
  /\ \A k, l \in DOMAIN submitted :
       k < l => OrderNumbers(k) \cap OrderNumbers(l) = {}

\* C11: within one finalize call the order numbers of all submitted requests
\* (order_number of sales orders, po_number of purchase orders) are pairwise
\* distinct: whenever the call submits requests, the numbers of all requests
\* submitted so far, the new ones included, are pairwise distinct.
C11_OrderNumbersDistinct ==
  [][ submitted' # submitted => NumbersDistinct' ]_vars

\* A call that submitted participant, demo and purchase orders of two
\* workflows: four batches of numbered requests.
C11_Witness ==
  /\ pc = "done"
  /\ Len(submitted) = 4
  /\ \E k \in DOMAIN submitted : submitted[k].kind = "purchase_order"
  /\ \E k \in DOMAIN submitted : submitted[k].identity = "celebrity"

\* The causes of the errors the helpers throw for an empty SKU list.
NoSkuCauses ==
  { "No SKUs selected for orders.", "No SKUs selected for PO.",
    "No SKUs selected for Multi-Item Demo Orders." }

\* The entries of the error list that carry the label of workflow w.
ErrorsOf(w) == { i \in DOMAIN errors : errors[i].label = WorkflowLabel(w) }

\* C12: for a tour with an empty selected SKU list, whatever its number of
\* participants, every selected workflow's handler is run and yields exactly
\* one error, which carries that workflow's label and a missing-SKU cause; no
\* other error is collected and no order is submitted.
C12_NoSkusOneErrorEach ==
  (HandlersDone /\ NoSkus) =>
    /\ \A w \in Selected :
         /\ w \in Range(started)
         /\ Cardinality(ErrorsOf(w)) = 1
         /\ \A i \in ErrorsOf(w) : errors[i].cause \in NoSkuCauses
    /\ Len(errors) = Cardinality(Selected)
    /\ submitted = << >>

\* Pack-to-light and a second workflow ran for a tour without SKUs and
\* without participants: the participant helper returned nothing and the
\* demo helpers threw.
C12_Witness ==
  /\ HandlersDone
  /\ NoSkus
  /\ tourData.participants = 0
  /\ Len(started) = 2
  /\ started[1] = "pack_to_light"
  /\ Len(errors) = 2

\* The handler of workflow w was invoked and has returned or thrown.
HandlerOver(w) ==
  /\ w \in Range(started)
  /\ ~(pc \in { "call", "await" } /\ Running = w)

\* The batches submitted by the handler of workflow w, in issue order.
BatchesOf(w) == SelectSeq(submitted, LAMBDA b : b.workflow = w)

\* C13: for a tour with zero participants and a non-empty SKU list, the
\* pack-to-light handler submits exactly 3 sales orders, all under the host's
\* identity and none under a generated celebrity identity, followed by
\* exactly 1 purchase order.
C13_HostFallback ==
  ( /\ tourData.loaded
    /\ tourData.participants = 0
    /\ ~NoSkus
    /\ HandlerOver("pack_to_light") ) =>
      LET bs == BatchesOf("pack_to_light") IN
        /\ Len(bs) = 2
        /\ bs[1].kind = "sales_order"
        /\ bs[1].count = HostDemoCount
        /\ bs[1].identity = "host"
        /\ bs[2].kind = "purchase_order"
        /\ bs[2].count = 1

\* The number of requests in a sequence of batches.
RECURSIVE OrderCount(_)
OrderCount(bs) ==
  IF bs = << >> THEN 0 ELSE bs[1].count + OrderCount(Tail(bs))

\* The numbers of line items a request of batch b can have, over the draws
\* of its helper.
LineItemCounts(b) ==
  CASE b.kind = "purchase_order" ->
         { Len(PoLineItems(tourData, [ k \in 1..PoSkuLimit |-> r ])) :
             r \in RandomDraws }
    [] b.identity = "participant" -> { Len(ParticipantLineItems(tourData)) }
    [] b.workflow = "multi_item_batch" ->
         { Len(MultiItemLineItems(tourData, 0, r,
                                  [ k \in 1..(MinItems + ItemsSpread) |-> r ],
                                  [ k \in 1..(MinItems + ItemsSpread) |-> r ])) :
             r \in RandomDraws }
    [] OTHER -> { Len(DemoLineItems(tourData, 0, r, r)) : r \in RandomDraws }

\* C14: the bulk-shipping handler of a tour with P participants and a
\* non-empty SKU list submits P + 10 sales orders in total (P under
\* participant identities, 10 under generated ones), and every one of them has
\* exactly one line item.
C14_BulkRecipe ==
  (tourData.loaded /\ ~NoSkus /\ HandlerOver("bulk_shipping")) =>
    LET bs == BatchesOf("bulk_shipping") IN
      /\ OrderCount(bs) = tourData.participants + BulkDemoCount
      /\ \A k \in DOMAIN bs :
           /\ bs[k].kind = "sales_order"
           /\ LineItemCounts(bs[k]) = { 1 }
      /\ OrderCount(SelectSeq(bs, LAMBDA b : b.identity = "participant"))
           = tourData.participants
      /\ OrderCount(SelectSeq(bs, LAMBDA b : b.identity = "celebrity"))
           = BulkDemoCount

\* The requests of one kind in a sequence of batches.
OfKind(bs, kind) == SelectSeq(bs, LAMBDA b : b.kind = kind)

\* The recipe of workflow w for a tour with P participants: the number of
\* sales orders and of purchase orders its handler submits.
Recipe(w, P) ==
  CASE w = "receive_to_light"   -> [ sales |-> 0, purchase |-> 1 ]
    [] w = "standard_receiving" -> [ sales |-> 0, purchase |-> 1 ]
    [] w = "pack_to_light"      ->
         [ sales |-> IF P = 0 THEN HostDemoCount ELSE P, purchase |-> 1 ]
    [] w = "bulk_shipping"      ->
         [ sales |-> P + BulkDemoCount, purchase |-> 0 ]
    [] w = "single_item_batch"  ->
         [ sales |-> P + SingleDemoCount, purchase |-> 0 ]
    [] w = "multi_item_batch"   ->
         [ sales |-> P + MultiDemoCount, purchase |-> 0 ]

\* C15: for a tour with a non-empty SKU list and P participants, every
\* submission succeeding, each handler that is over has submitted exactly its
\* recipe: receive-to-light and standard-receiving 1 purchase order and no
\* sales order; pack-to-light P sales orders (3 if P = 0) and then 1 purchase
\* order; bulk-shipping P + 10, single-item-batch P + 5 and multi-item-batch
\* P + 5 sales orders and no purchase order; and no handler failed.
C15_Recipes ==
  \A w \in WorkflowOption :
    (tourData.loaded /\ ~NoSkus /\ HandlerOver(w)) =>
      LET bs == BatchesOf(w) IN
        /\ OrderCount(OfKind(bs, "sales_order"))
             = Recipe(w, tourData.participants).sales
        /\ OrderCount(OfKind(bs, "purchase_order"))
             = Recipe(w, tourData.participants).purchase
        /\ w = "pack_to_light" => bs[Len(bs)].kind = "purchase_order"
        /\ w \notin Failed

\* A successful call that ran pack-to-light and bulk shipping for a tour
\* with a participant.
C15_Witness ==
  /\ pc = "done"
  /\ result.success
  /\ tourData.participants > 0
  /\ started = << "pack_to_light", "bulk_shipping" >>
  /\ Len(submitted) = 4

\* The total of quantity times unit price over the line items of a request.
RECURSIVE LineTotal(_)
LineTotal(items) ==
  IF items = << >> THEN 0
  ELSE items[1].quantity * items[1].price + LineTotal(Tail(items))

\* C19: every sales-order and purchase-order request carries a subtotal and a
\* total price that both equal the sum over its line items of quantity times
\* unit price, whatever the random draws of quantities and item counts.
C19_TotalsMatchLineItems ==
  request # NoRequest =>
    /\ request.subtotal = LineTotal(request.line_items)
    /\ request.total_price = LineTotal(request.line_items)

\* A multi-item order with four line items of unequal quantities.
C19_Witness ==
  /\ request # NoRequest
  /\ Len(request.line_items) = 4
  /\ request.line_items[1].quantity = 1
  /\ request.line_items[2].quantity = 3
  /\ request.subtotal > 0

\* The demonstration sections of guide g that present workflow w.
SectionsOf(g, w) ==
  { k \in DOMAIN g.text.demonstrations :
      g.text.demonstrations[k].workflow = w }

\* C16: a guide contains exactly one demonstration section for each workflow
\* of the six-name enumeration that is selected for the tour, and none for a
\* workflow that is not selected.
C16_SectionPerSelectedWorkflow ==
  \A g \in guides : \A w \in WorkflowOption :
    Cardinality(SectionsOf(g, w)) =
      IF Includes(g.data.selected_workflows, w) THEN 1 ELSE 0

\* C17: the demonstration sections of a guide appear in the order
\* receive_to_light, pack_to_light, standard_receiving, bulk_shipping,
\* single_item_batch, multi_item_batch of the enumeration, the order in which
\* finalize runs the handlers.
C17_SectionsInStepOrder ==
  \A g \in guides : \A i, j \in DOMAIN g.text.demonstrations :
    i < j => StepOrder(g.text.demonstrations[i].workflow)
               < StepOrder(g.text.demonstrations[j].workflow)

C20_TokenReadOnly ==
  /\ (pc \notin { "idle", "token" } /\ tourLoads > 0) => shipHero = OwnToken
  /\ \A k \in DOMAIN submitted : submitted[k].token = OwnToken

\* C21: in the summary returned with the guide, the sales_orders and
\* purchase_orders lists hold one entry for each sales order and each purchase
\* order created during the run (here every submitted order is created).
C21_SummaryListsCreatedOrders ==
  (pc = "done" /\ result.instructionGuide) =>
    /\ Len(result.orders.sales_orders)
         = OrderCount(OfKind(submitted, "sales_order"))
    /\ Len(result.orders.purchase_orders)
         = OrderCount(OfKind(submitted, "purchase_order"))

\* No external call of the run was issued twice: one tour load, one status
\* write, and no batch of orders submitted a second time.
NoRetry ==
  /\ tourLoads <= 1
  /\ Len(statusWrites) <= 1
  /\ \A i, j \in DOMAIN submitted :
       (/\ submitted[i].workflow = submitted[j].workflow
        /\ submitted[i].kind = submitted[j].kind
        /\ submitted[i].identity = submitted[j].identity) => i = j
  /\ \A i, j \in DOMAIN started : started[i] = started[j] => i = j

\* C22: when every external call is eventually answered, every started
\* finalizeTour call eventually returns (no behaviour stays forever between
\* the start of the call and its return), and it has repeated no external
\* call (the records of issued calls only grow, so a repetition would still
\* show at the return).
C22_EveryCallReturns ==
  []<>(pc \in { "idle", "done" } /\ NoRetry)

\* A call returned with the guide after two workflows submitted orders and
\* one of them failed.
C22_Witness ==
  /\ pc = "done"
  /\ result.instructionGuide
  /\ Len(started) = 2
  /\ Len(submitted) >= 2
  /\ Len(errors) = 1

\* What a guide call must leave alone: the stored tour (its status, its
\* participants, its selected products and workflows), the service's session
\* and the records of submitted orders, tour loads of a finalization and
\* status writes.
Untouched ==
  << status, tour_participants, selected_skus, selected_workflows, shipHero,
     submitted, statusWrites, tourLoads >>

\* C23: generateInstructionGuide called on its own is a pure preview: no step
\* of it initializes a session, submits an order, or changes the tour status
\* or any stored record, whether the guide is rendered or a query fails.
C23_GuideIsPurePreview ==
  [][ /\ UNCHANGED Untouched
      /\ shipHero' = NoShipHero
      /\ submitted' = << >>
      /\ status' = "draft" ]_vars

\* A guide with a section was rendered and the tour is still a draft with no
\* session and no order.
C23_Witness ==
  /\ \E g \in guides : Len(g.text.demonstrations) > 0
  /\ pc = "idle"
  /\ status = "draft"
  /\ shipHero = NoShipHero
  /\ submitted = << >>

\* The first words of the order number of a request.
NumberStarts(prefix) ==
  /\ Len(request.number) >= Len(prefix)
  /\ SubSeq(request.number, 1, Len(prefix)) = prefix

\* The request being built is a participant order.
ParticipantRequest ==
  /\ request.kind = "sales_order"
  /\ request.identity = "participant"

\* C24: every participant sales order, whichever of pack_to_light,
\* bulk_shipping, single_item_batch and multi_item_batch builds it, has as line
\* items exactly the first min(3, n) of the tour's n selected SKUs in their
\* order, each with quantity 1 and unit price 10.00.
C24_ParticipantLineItems ==
  ParticipantRequest =>
    LET n == Len(selected_skus)
        m == IF n < 3 THEN n ELSE 3
    IN /\ \E w \in ParticipantWorkflows : NumberStarts(WorkflowName(w))
       /\ Len(request.line_items) = m
       /\ \A k \in 1..m :
            request.line_items[k]
              = [ sku |-> selected_skus[k], quantity |-> 1, price |-> 1000,
                  quantity_pending_fulfillment |-> 1 ]

\* A participant order of multi_item_batch for a tour with more than three
\* selected SKUs.
C24_Witness ==
  /\ ParticipantRequest
  /\ Len(selected_skus) > 3
  /\ NumberStarts(WorkflowName("multi_item_batch"))

\* C25: every purchase order, whichever of receive_to_light, pack_to_light
\* and standard_receiving builds it, has as line items exactly the first
\* min(6, n) of the tour's n selected SKUs in their order, never more than 6,
\* each with an integer quantity from 5 to 14.
C25_PurchaseOrderLineItems ==
  request.kind = "purchase_order" =>
    LET n == Len(selected_skus)
        m == IF n < 6 THEN n ELSE 6
    IN /\ \E w \in PoWorkflows : NumberStarts(WorkflowName(w))
       /\ Len(request.line_items) = m
       /\ Len(request.line_items) <= 6
       /\ \A k \in 1..m :
            /\ request.line_items[k].sku = selected_skus[k]
            /\ request.line_items[k].quantity \in 5..14

\* A purchase order for a tour of more than six SKUs, with the smallest and
\* the largest quantity on its lines.
C25_Witness ==
  /\ request.kind = "purchase_order"
  /\ Len(selected_skus) > 6
  /\ Len(request.line_items) = 6
  /\ request.line_items[1].quantity = 5
  /\ request.line_items[6].quantity = 14

\* The request being built is an order of the generated-identity batch of
\* bulk_shipping or single_item_batch, or of the host batch of pack_to_light.
SingleLineRequest ==
  /\ request.kind = "sales_order"
  /\ \/ request.identity = "host"
     \/ /\ request.identity = "celebrity"
        /\ \/ NumberStarts(DemoPrefix("bulk_shipping"))
           \/ NumberStarts(DemoPrefix("single_item_batch"))

\* The request is the i-th (from 0) order of its batch: its order number
\* ends in i + 1.
IsOrder(i) == request.number[Len(request.number)] = ToString(i + 1)

\* C26: in the generated-identity batches of bulk_shipping and
\* single_item_batch and in the host batch of pack_to_light, the i-th order
\* (from 0) has exactly one line item, whose SKU is the selected SKU at
\* index i mod n and whose quantity is an integer from 1 to 3.
C26_SingleLineOrders ==
  SingleLineRequest =>
    LET n == Len(selected_skus) IN
      \E i \in 0..9 :
        /\ IsOrder(i)
        /\ Len(request.line_items) = 1
        /\ request.line_items[1].sku = selected_skus[(i % n) + 1]
        /\ request.line_items[1].quantity \in 1..3

\* The tenth bulk order of a tour of three SKUs: the index wrapped round
\* three times, and the largest quantity was drawn.
C26_Witness ==
  /\ SingleLineRequest
  /\ NumberStarts(DemoPrefix("bulk_shipping"))
  /\ IsOrder(9)
  /\ Len(selected_skus) = 3
  /\ request.line_items[1].sku = selected_skus[1]
  /\ request.line_items[1].quantity = 3

\* The request being built is a generated-identity order of
\* multi_item_batch.
MultiItemRequest ==
  /\ request.kind = "sales_order"
  /\ request.identity = "celebrity"
  /\ NumberStarts(DemoPrefix("multi_item_batch"))

\* The request being built is a participant order of multi_item_batch.
MultiParticipantRequest ==
  /\ ParticipantRequest
  /\ NumberStarts(WorkflowName("multi_item_batch"))

HostBatches ==
  SelectSeq(BatchesOf("pack_to_light"), LAMBDA b : b.identity = "host")

\* C28: the pack-to-light handler submits the 3 host orders if and only if
\* the tour has zero participants: with one participant or more it submits no
\* host order, whatever the answers to the participant submissions.
C28_HostOrdersIffNoParticipants ==
  /\ HostBatches # << >> => tourData.participants = 0
  /\ ( /\ tourData.loaded
       /\ tourData.participants = 0
       /\ ~NoSkus
       /\ HandlerOver("pack_to_light") ) =>
         /\ Len(HostBatches) = 1
         /\ HostBatches[1].count = HostDemoCount

\* The workflow whose logic block wrote the error entry e.
WorkflowOf(e) == CHOOSE w \in WorkflowOption : WorkflowLabel(w) = e.label

\* The error list of a normal return: the collected workflow errors, each
\* from a selected workflow whose handler was started, in step order without
\* repetition, and their number in the message.
ErrorReport ==
  (pc = "done" /\ result.instructionGuide) =>
    /\ result.errors = errors
    /\ \A i \in DOMAIN result.errors :
         /\ \E w \in Selected : result.errors[i].label = WorkflowLabel(w)
         /\ WorkflowOf(result.errors[i]) \in Range(started)
    /\ \A i, j \in DOMAIN result.errors :
         i < j => StepOrder(WorkflowOf(result.errors[i]))
                    < StepOrder(WorkflowOf(result.errors[j]))
    /\ Len(result.errors) > 0 =>
         /\ result.message.text = "Tour finalized with workflow error(s)."
         /\ result.message.count = Len(result.errors)

\* An entry enters the error list only when the running handler is left by
\* an exception: one entry, labelled with that handler's workflow, and the
\* call goes on with the next logic block.
ErrorOnRaise ==
  errors' # errors =>
    /\ pc \in { "call", "await" }
    /\ errors' = Append(errors, ErrorMsg(WorkflowLabel(Running),
                                         errors'[Len(errors')].cause))
    /\ pc' = "dispatch"
    /\ block' = block + 1

\* C29: on the normal return path the error list holds one string for each
\* selected workflow whose handler raised and none for the others, in the
\* canonical execution order, and when it is not empty the message states its
\* length as the number of workflow errors.
C29_ErrorListOfNormalReturn == [][ ErrorOnRaise /\ ErrorReport' ]_vars

\* A normal return reporting two workflow errors in step order although the
\* workflows were selected in the opposite order.
C29_Witness ==
  /\ pc = "done"
  /\ result.instructionGuide
  /\ Len(result.errors) = 2
  /\ result.message.count = 2
  /\ Len(started) = 2
  /\ selectedOptions = << started[2], started[1] >>

\* The messages of the two exceptions of a failed purchase-order submission.
PoCauses == { "Failed to create purchase order", "Failed to create PO" }

\* The handler of workflow w submitted its purchase order.
PoSubmitted(w) ==
  \E k \in DOMAIN submitted :
    submitted[k].workflow = w /\ submitted[k].kind = "purchase_order"

\* C30: the purchase order is mandatory.  When its create call raises or
\* returns no purchase order, the handler raises and its workflow
\* (receive_to_light, standard_receiving, or pack_to_light even after its
\* sales orders were submitted) is reported as one failed workflow, with the
\* purchase order's error.
C30_PurchaseOrderMandatory ==
  \A w \in PoWorkflows :
    (HandlerOver(w) /\ PoSubmitted(w)) =>
      /\ Cardinality(ErrorsOf(w)) = 1
      /\ \A i \in ErrorsOf(w) :
           /\ errors[i].cause \in PoCauses
           /\ (pc = "done" /\ result.instructionGuide) =>
                /\ ~result.success
                /\ \E j \in DOMAIN result.errors :
                     result.errors[j] = errors[i]

\* pack_to_light failed on a purchase order answered without one, after its
\* participant orders were submitted and created, and the call returned.
C30_Witness ==
  /\ pc = "done"
  /\ result.instructionGuide
  /\ Len(BatchesOf("pack_to_light")) = 2
  /\ BatchesOf("pack_to_light")[1].identity = "participant"
  /\ PoSubmitted("pack_to_light")
  /\ \E i \in ErrorsOf("pack_to_light") :
       errors[i].cause = "Failed to create PO"

\* C31: across any sequence of finalizeTour and generateInstructionGuide
\* calls the stored tour, participant and product records are never modified,
\* the status is the only stored value written, the only value written to it
\* is "finalized" (by the status update of a finalizeTour call), and a
\* finalized tour never returns to draft.
C31_StatusOnlyStoredWrite ==
  [][ /\ UNCHANGED << tour_participants, selected_skus, selected_workflows >>
      /\ status' # status => (status' = "finalized" /\ pc = "status")
      /\ status = "finalized" => status' = "finalized"
      /\ \A i \in DOMAIN statusWrites' : statusWrites'[i] = "finalized" ]_vars

\* A later finalizeTour call on a tour an earlier call finalized failed at
\* its status update, and the tour is still finalized.
C31_Witness ==
  /\ pc = "done"
  /\ status = "finalized"
  /\ Len(statusWrites) = 1
  /\ ~result.instructionGuide
  /\ TopLevelFailure("Failed to update tour status")

\* The order numbers of the requests of the remembered batch of an earlier
\* call.
EarlierNumbers ==
  IF earlier = NoEarlier THEN {}
  ELSE { OrderNumber(earlier, i) : i \in 1..earlier.count }

HandlersCompleted ==
  /\ tourData.loaded
  /\ Range(started) = Selected
  /\ pc \notin { "load", "dispatch", "call", "await" }

\* Where the phases of a call stand: the tour is loaded only with a session,
\* handlers start only on a loaded tour, the guide is generated only after
\* every selected handler completed, the status write is sent only after
\* the guide was generated.
PhasesInOrder ==
  /\ tourLoads > 0 => shipHero # NoShipHero
  /\ tourData.loaded => tourLoads > 0
  /\ started # << >> => tourData.loaded
  /\ pc \in { "guide", "status" } => HandlersCompleted
  /\ guideGenerated => HandlersCompleted
  /\ statusWrites # << >> => guideGenerated /\ pc \in { "status", "done" }

\* C33: within a finalizeTour call the phases are strictly ordered: session
\* initialization, tour load, handlers, guide generation, status write.  The
\* status write is never sent before the last selected handler completed and
\* the guide was generated, and no order is submitted once the guide phase
\* began, so none after the status write.
C33_PhasesStrictlyOrdered ==
  [][ /\ PhasesInOrder'
      /\ submitted' # submitted =>
           /\ pc = "call"
           /\ tourData.loaded
           /\ ~guideGenerated /\ ~guideGenerated'
           /\ statusWrites = << >> /\ statusWrites' = << >>
      /\ started' # started => ~guideGenerated /\ statusWrites = << >>
      /\ guideGenerated => guideGenerated' ]_vars

\* A call that ran two handlers, one of which failed, submitted orders,
\* generated the guide and had its status write answered.
C33_Witness ==
  /\ pc = "done"
  /\ result.instructionGuide
  /\ status = "finalized"
  /\ Len(started) = 2
  /\ Len(errors) = 1
  /\ submitted # << >>

\* The places where finalizeTour is outside every handler: its start, the
\* token request, the tour load, the guide's reload and the status write.
OutsideHandlers == { "idle", "token", "load", "guide", "status" }

\* C34: finalizeTour never raises to its caller.  Every call ends by
\* returning a result object, and never from inside a handler; a failure
\* outside a handler returns success=false, no guide, and the top-level error
\* followed by the workflow errors collected so far.
C34_NeverRaises ==
  [][ (pc # "done" /\ pc' = "done") =>
        /\ pc \in OutsideHandlers
        /\ result'.returned
        /\ \/ /\ result'.instructionGuide
              /\ pc = "status"
           \/ /\ ~result'.success
              /\ ~result'.instructionGuide
              /\ Len(result'.errors) = Len(errors) + 1
              /\ result'.errors[1].label = "Tour finalization"
              /\ Tail(result'.errors) = errors ]_vars

\* The status write failed after one workflow had failed: the result is the
\* top-level error followed by the workflow error.
C34_Witness ==
  /\ pc = "done"
  /\ result.returned
  /\ ~result.instructionGuide
  /\ Len(errors) = 1
  /\ result.errors
       = << ErrorMsg("Tour finalization", "Failed to update tour status") >>
           \o errors

\* C35: when the tour's selected SKU list is empty no handler submits any
\* order, sales or purchase, for every selection of workflows and every
\* number of participants: a request is issued only by a helper that found
\* the list non-empty.
C35_NoSubmissionWithoutSkus ==
  [][ submitted' # submitted =>
        /\ Len(selected_skus) > 0
        /\ tourData.loaded /\ ~NoSkus ]_vars

\* A tour with participants and no SKU: two handlers ran, the call returned,
\* and nothing was submitted.
C35_Witness ==
  /\ pc = "done"
  /\ tourData.loaded
  /\ NoSkus
  /\ tourData.participants > 0
  /\ Len(started) = 2
  /\ Len(errors) = 2
  /\ submitted = << >>

\* Position of a batch in its handler: the participant batch, then the host
\* or generated-identity batch, then the purchase order.
BatchRank(b) ==
  CASE b.identity = "participant" -> 1
    [] b.identity \in { "host", "celebrity" } -> 2
    [] b.identity = "vendor" -> 3

\* The batches each handler issued so far came in the order participant
\* batch, host or generated-identity batch, purchase order.
BatchesInOrder ==
  \A w \in WorkflowOption :
    \A i, j \in DOMAIN BatchesOf(w) :
      i < j => BatchRank(BatchesOf(w)[i]) < BatchRank(BatchesOf(w)[j])

\* C36: inside one handler the batches are issued strictly one after
\* another, participant batch, then host or generated-identity batch, then
\* the purchase order of pack_to_light: a batch is issued only when no
\* submission of an earlier batch of its workflow is unanswered, and once a
\* batch raised (the workflow has its error entry) no later batch of that
\* workflow is submitted, the pack_to_light purchase order included.
C36_BatchesOneAfterAnother ==
  [][ submitted' # submitted =>
        /\ pc = "call"
        /\ submitted' = Append(submitted, submitted'[Len(submitted')])
        /\ submitted'[Len(submitted')].workflow = Running
        /\ ~Outstanding(Running)
        /\ Running \notin Failed
        /\ BatchesInOrder' ]_vars

\* pack_to_light issued its purchase order after its participant batch was
\* answered in full.
C36_Witness ==
  /\ Len(BatchesOf("pack_to_light")) = 2
  /\ BatchesOf("pack_to_light")[1].identity = "participant"
  /\ BatchesOf("pack_to_light")[2].kind = "purchase_order"
  /\ pc = "await"
  /\ Awaited("pack_to_light") = 1

\* The workflows the demonstration sections of guide text t are about.
Demonstrated(t) ==
  { t.demonstrations[i].workflow : i \in DOMAIN t.demonstrations }

\* The workflows whose handler the call ran.
HandlersRun == { started[i] : i \in DOMAIN started }

\* C37: the guide finalizeTour returns follows the stored selected_workflows
\* and not the selectedOptions argument: the call that returned a guide
\* rendered exactly one, its demonstration sections are those of the stored
\* workflows that have a guide block, and the handlers it ran are the
\* recognized workflows named in the argument.
C37_GuideFollowsStoredWorkflows ==
  (pc = "done" /\ result.instructionGuide) =>
    /\ Cardinality(guides) = 1
    /\ \A g \in guides :
         /\ Demonstrated(g.text) =
              { w \in WorkflowOption :
                  /\ Includes(selected_workflows, w)
                  /\ Includes(GuideBlocks, w) }
         /\ g.data.selected_workflows = selected_workflows
    /\ HandlersRun = Selected

\* A call ran the handler of one workflow and returned a guide that
\* demonstrates another one only.
C37_Witness ==
  /\ pc = "done"
  /\ result.instructionGuide
  /\ HandlersRun = { "bulk_shipping" }
  /\ \E g \in guides : Demonstrated(g.text) = { "pack_to_light" }

\* C38: in every sales-order line item a handler submits,
\* quantity_pending_fulfillment equals quantity.
C38_PendingEqualsQuantity ==
  (request # NoRequest /\ request.kind = "sales_order") =>
    \A k \in DOMAIN request.line_items :
      request.line_items[k].quantity_pending_fulfillment
        = request.line_items[k].quantity

\* C39: the line items of every multi-item generated-identity order carry
\* pairwise distinct SKUs: the order has at most as many lines as the tour
\* has selected SKUs, so its window of consecutive SKUs never wraps onto
\* itself.
C39_MultiItemSkusDistinct ==
  MultiItemRequest =>
    /\ Len(request.line_items) <= Len(selected_skus)
    /\ \A j, k \in DOMAIN request.line_items :
         j # k => request.line_items[j].sku # request.line_items[k].sku

\* An order of four lines for a tour of four SKUs whose window starts at the
\* second SKU and wraps round to the first.
C39_Witness ==
  /\ MultiItemRequest
  /\ Len(selected_skus) = 4
  /\ Len(request.line_items) = 4
  /\ request.line_items[1].sku = selected_skus[2]
  /\ request.line_items[4].sku = selected_skus[1]

\* The kind of the n-th order of a run of the quick tour creator.
ExpectedOrder(n) ==
  IF n = 1 THEN "purchase_order"
  ELSE IF n <= 11 THEN "multi-item"
  ELSE IF n <= 21 THEN "single-item"
  ELSE "bulk-ship"

\* The orders posted so far are the first ones of 1 purchase order, 10
\* multi-item, 10 single-item and 25 bulk-ship orders, all but possibly the
\* last one were created, and the toast and isCreating tell how the run
\* stands.
CreatorRun ==
  /\ Len(creator.sent) <= 46
  /\ \A n \in DOMAIN creator.sent : creator.sent[n] = ExpectedOrder(n)
  /\ creator.created <= Len(creator.sent)
  /\ Len(creator.sent) <= creator.created + 1
  /\ creator.toast = "success" =>
       /\ creator.created = 46
       /\ Len(creator.sent) = 46
       /\ ToastOrderCount = creator.created
  /\ creator.toast = "error" => creator.created < 46
  /\ creator.isCreating <=> creator.toast = "working"
  /\ creator.isCreating <=> creator.awaiting # "none"

\* C40: handleCreateTour submits its orders one at a time in the order 1
\* purchase order, 10 multi-item, 10 single-item, 25 bulk-ship sales orders:
\* an order is posted only while isCreating is set, no toast but the
\* "creating" one is shown and every order posted before was created; the
\* success toast reporting 46 orders is shown only after all 46 were
\* created; after the first failure nothing more is posted and the error
\* toast is shown; isCreating is set from the start of the run and reset with
\* either toast.
C40_QuickTourOneAtATime ==
  [][ /\ CreatorRun'
      /\ Len(creator'.sent) > Len(creator.sent) =>
           /\ creator.isCreating
           /\ creator.toast = "working"
           /\ creator.created = Len(creator.sent)
           /\ Len(creator'.sent) = Len(creator.sent) + 1
      /\ (creator.isCreating /\ ~creator'.isCreating) =>
           creator'.toast \in { "success", "error" } ]_vars

\* The run posted all 46 orders and shows the success toast.
C40_Witness ==
  /\ creator.toast = "success"
  /\ Len(creator.sent) = 46
  /\ ~creator.isCreating

====
